---- MODULE Spec2Model ----
(***************************************************************************)
(* Verification model of the styletelling-ai query pipeline                *)
(* (run_user_query.py), the query canonicalizer and the cache store        *)
(* (data/cache_runtime.py).                                                *)
(*                                                                         *)
(* The specifications of the module, each over its own variables:          *)
(*   Spec           the six-stage generator process_user_query_streaming   *)
(*   SpecCanon      canonicalize_query applied to raw queries and variants *)
(*   SpecCache      write_cache / get_cached_result over a cache directory *)
(*   SpecRace       two interleaved write_cache calls for one filename     *)
(*   SpecManifest   read_rows / load_index over a queries.csv              *)
(*   SpecPrewarm    prewarm_from_csv                                       *)
(*   SpecExec       execute_prompt, call_model and parse_api_response      *)
(*   SpecExclusions the exclusion rules of Step 4 for one result block     *)
(*   SpecDetail     Steps 4-6 (filter, labels, ranker) on one detail set   *)
(*   SpecGroup      group_products                                         *)
(*   SpecServe      stream_user_query over a cache directory               *)
(*   SpecSidebar    render_dev_sidebar with fetch_results_for_prewarm      *)
(*   SpecCounters   the usage counters of call_model under worker threads  *)
(***************************************************************************)
EXTENDS Integers, Sequences, FiniteSets, TLC

VARIABLES
    \* ---- process_user_query_streaming (generator frame) ----
    pc,                         \* position of the generator
    events,                     \* events yielded so far, in order
    raised,                     \* "none", or the exception that escaped the generator
    calls,                      \* log of Prompt Executor / Product Ranker calls
    category_score_threshold,   \* parameter of the generator
    context_results,
    attribute_results,
    top_attributes_from_prompt,
    futures,                    \* future_to_attribute: one future per submitted call
    detailed_results,
    filtered_detailed_results,
    category_results,
    relevant_categories,
    searched,                   \* stage 6: how many categories the loop has processed
    product_recommendations,
    \* ---- canonicalize_query ----
    qa, qb,                     \* a raw query and a variant of it
    keyA, keyB, keyBB,          \* canonical keys: of qa, of qb, of keyB again
    \* ---- cache directory ----
    files,                      \* CACHE_DIR: filename -> content
    lastWrite,                  \* per file: the envelope of the last write_cache that returned
    lastRead,                   \* the last get_cached_result call and what it returned
    \* ---- concurrent write_cache calls for one filename ----
    wpc,                        \* position of each call
    wlen,                       \* per call: the number of write(2) chunks of its envelope
    dentry,                     \* directory: path -> inode number (0: no entry)
    inodes,                     \* inode number -> content, a sequence of chunks
    wfd,                        \* per call: the inode its open file descriptor refers to
    woff,                       \* per call: the offset of that descriptor, in chunks
    wraised,                    \* per call: "none", or the exception that left the call
    \* ---- read_rows / load_index (frame of one call) ----
    csv,                        \* the data rows of queries.csv, in file order
    mpc,                        \* position of the call
    rline,                      \* how many data rows the reader has consumed
    rowlist,                    \* the local list `rows`
    seen_keys, seen_files,
    mraised,                    \* <<>>, or the exception that left the call
    returned_rows,              \* what read_rows returned (None before)
    loaded_index,               \* what load_index returned (None before)
    \* ---- prewarm_from_csv (frame of one call) ----
    overwrite, row_limit,       \* parameters overwrite and limit
    total, nwritten, skipped,   \* the counters total, written, skipped
    plog,                       \* per processed row: what the loop did with it
    files0,                     \* the cache directory when the call started
    presult,                    \* what prewarm_from_csv returned (None before)
    \* ---- execute_prompt and call_model (frame of one call) ----
    eargs,                      \* the arguments and the environment of the call
    epc,                        \* position of the call
    retry,                      \* call_model: the parameter retry of the current frame
    attempts,                   \* call_model: the outcome of each request sent, in order
    model_result,               \* what call_model returned (NotCalled before)
    eresult,                    \* what execute_prompt returned (NotCalled before)
    eraised,                    \* "none", or the exception that left execute_prompt
    efailure,                   \* "none", or the kind of failure execute_prompt met
    \* ---- the exclusion rules applied to one result block ----
    xcontext,                   \* context_results
    xattribute,                 \* result_block["attribute"], with the name it stands for
    xexclusions,                \* the set `exclusions` (None before it is computed)
    \* ---- Steps 4-6 applied to one detail set ----
    dcontext,                   \* context_results
    ddetailed,                  \* detailed_results (the pre-filter detail set)
    dfiltered,                  \* filtered_detailed_results (None before Step 4)
    dlabels,                    \* fashion_attributes_list (None before Step 5)
    dsearch,                    \* the calls of search_products_with_details made
    dorder,                     \* the order in which the store yields rows that tie
    \* ---- group_products (frame of one call) ----
    gfinal,                     \* final_results, as the (category, items) pairs in order
    gcap,                       \* cap
    ggrouped,                   \* what group_products returned (None before)
    \* ---- render_dev_sidebar: one press of the prewarm button ----
    spc,                        \* position: "idle", "loop" or "done"
    srows,                      \* _rows, each with the stream its query produces
    soverwrite, slimit,         \* the inputs _overwrite and _limit
    scount,                     \* the counters total, written, skipped, failed
    slog,                       \* per processed row: what the loop did with it
    \* ---- llm_utils: the usage counters and the threads inside call_model ----
    total_input_tokens, total_output_tokens, num_api_calls,
    kpc,                        \* per thread: the position inside call_model
    kresponse,                  \* per thread: the usage of the response received
    kloaded                     \* per thread: the counter value read by the pending +=

pvars == <<pc, events, raised, calls, category_score_threshold, context_results,
           attribute_results, top_attributes_from_prompt, futures, detailed_results,
           filtered_detailed_results, category_results, relevant_categories,
           searched, product_recommendations>>
qvars == <<qa, qb, keyA, keyB, keyBB>>
fvars == <<files, lastWrite, lastRead>>
rvars == <<wpc, wlen, dentry, inodes, wfd, woff, wraised>>
mvars == <<csv, mpc, rline, rowlist, seen_keys, seen_files, mraised, returned_rows,
           loaded_index>>
warmvars == <<overwrite, row_limit, total, nwritten, skipped, plog, files0, presult>>
evars == <<eargs, epc, retry, attempts, model_result, eresult, eraised, efailure>>
xvars == <<xcontext, xattribute, xexclusions>>
dvars == <<dcontext, ddetailed, dfiltered, dlabels, dsearch, dorder>>
\* the frames of the operations modelled first, and of those modelled after them
corevars == <<pvars, qvars, fvars, rvars, mvars, warmvars, evars, xvars>>
gvars == <<gfinal, gcap, ggrouped>>
svars == <<spc, srows, soverwrite, slimit, scount, slog>>
kvars == <<total_input_tokens, total_output_tokens, num_api_calls, kpc, kresponse, kloaded>>
restvars == <<dvars, gvars, svars, kvars>>
\* what the operations on one group of variables leave alone
OutsideDetail == <<corevars, gvars, svars, kvars>>
OutsideGroup == <<corevars, dvars, svars, kvars>>
OutsideCounters == <<corevars, dvars, gvars, svars>>
OutsideSidebar == <<pvars, qvars, lastWrite, lastRead, rvars, mvars, warmvars, evars, xvars,
                    dvars, gvars, kvars>>
vars == <<corevars, restvars>>

(***************************************************************************)
(* Bounds of the model.                                                    *)
(***************************************************************************)
\* how many of the att_1..att_5 keys the sampled stage-2 responses use
MaxSelected == 2
\* how many edits turn a base query into its variant
MaxEdits == 3

(***************************************************************************)
(* Python values.  A str is a sequence of whitespace-separated tokens, so  *)
(* that splitting on '|' and trimming is computed, not assumed; a dict is  *)
(* a function from its keys; None, int and list are tagged.                *)
(***************************************************************************)
PyNone == [t |-> "none"]
PyStr(s) == [t |-> "str", s |-> s]
PyInt(n) == [t |-> "int", n |-> n]
PyDict(d) == [t |-> "dict", d |-> d]
PyList(l) == [t |-> "list", l |-> l]
\* a one-word string
W(w) == PyStr(<<w>>)
EmptyDict == PyDict(<<>>)

\* Python truth value, as used by `if not x` / `if x`
Truthy(v) ==
    CASE v.t = "none" -> FALSE
      [] v.t = "str" -> v.s # <<>>
      [] v.t = "int" -> v.n # 0
      [] v.t = "dict" -> DOMAIN v.d # {}
      [] v.t = "list" -> v.l # <<>>

\* x.get(k, default) on a dict (the callers below guard x.t = "dict":
\* .get on a str raises AttributeError)
GetOr(x, k, default) == IF k \in DOMAIN x.d THEN x.d[k] ELSE default
Get(x, k) == GetOr(x, k, PyNone)
IsInt(v) == v.t = "int"

Min(S) == CHOOSE x \in S : \A y \in S : x <= y

(***************************************************************************)
(* Static tables of run_user_query.py                                      *)
(***************************************************************************)
\* ATTRIBUTE_INFO: attribute label -> attr_name in the attributes table
ATTRIBUTE_INFO ==
    {[key |-> <<"Material">>, attr_name |-> "material"],
     [key |-> <<"Cor">>, attr_name |-> "color"],
     [key |-> <<"Estrutura">>, attr_name |-> "structure"],
     [key |-> <<"Linha">>, attr_name |-> "line"],
     [key |-> <<"Textura">>, attr_name |-> "texture"],
     [key |-> <<"Superfície">>, attr_name |-> "surface"],
     [key |-> <<"Mensagem">>, attr_name |-> "message"]}

\* the keys of PROMPT_MAPPING
PROMPT_MAPPING ==
    {<<"Mensagem">>, <<"Linha">>, <<"Material">>, <<"Estrutura">>, <<"Textura">>,
     <<"Superfície">>, <<"Cor">>, <<"ContextAnalyzer">>}

Couro == <<"Couro">>
Jeans == <<"Jeans">>
Malha == <<"Malha", "|", "Retilínea">>
Festivo == <<"Tecido", "festivo">>
Plano == <<"Tecido", "plano">>
Pesado == <<"Pesado", "|", "Estruturado">>
Leve == <<"Leve", "|", "Fluido">>
Brilhante == <<"Brilhante">>
DiaADia == <<"ATIVIDADES", "DIA", "A", "DIA">>

Rule(attr, values) == [attr |-> <<attr>>, values |-> values]
Occ(f, t, l, a, rules) ==
    [key |-> <<PyStr(<<f>>), PyStr(<<t>>), PyStr(<<l>>), PyStr(a)>>, rules |-> rules]

OCCASION_EXCLUSIONS ==
    {Occ("FORMAL", "DIA", "CAMPO", <<"FESTA">>,
         {Rule("Material", {Couro, Jeans, Malha}), Rule("Superfície", {Brilhante})}),
     Occ("FORMAL", "NOITE", "CAMPO", <<"FESTA">>, {Rule("Material", {Couro, Jeans, Malha})}),
     Occ("INFORMAL", "DIA", "CIDADE", <<"ESPORTE">>,
         {Rule("Material", {Couro, Jeans, Festivo, Plano})}),
     Occ("INFORMAL", "DIA", "CIDADE", <<"LAZER">>, {Rule("Material", {Couro, Jeans, Festivo})}),
     Occ("INFORMAL", "DIA", "CIDADE", DiaADia, {Rule("Material", {Festivo, Plano})}),
     Occ("INFORMAL", "NOITE", "CIDADE", <<"ESPORTE">>,
         {Rule("Material", {Couro, Jeans, Festivo, Plano}), Rule("Estrutura", {Pesado})}),
     Occ("INFORMAL", "DIA", "PRAIA", <<"ESPORTE">>,
         {Rule("Material", {Couro, Festivo, Plano}), Rule("Estrutura", {Pesado})}),
     Occ("INFORMAL", "DIA", "PRAIA", <<"LAZER">>, {Rule("Material", {Couro, Festivo, Plano})}),
     Occ("INFORMAL", "DIA", "PRAIA", <<"FESTA">>, {Rule("Material", {Couro, Festivo, Plano})}),
     Occ("INFORMAL", "DIA", "PRAIA", DiaADia, {Rule("Material", {Couro, Jeans, Festivo})}),
     Occ("INFORMAL", "NOITE", "PRAIA", <<"LAZER">>,
         {Rule("Material", {Couro, Festivo}), Rule("Estrutura", {Pesado})}),
     Occ("INFORMAL", "NOITE", "PRAIA", <<"FESTA">>, {Rule("Material", {Couro, Festivo})}),
     Occ("INFORMAL", "DIA", "CAMPO", <<"ESPORTE">>, {Rule("Material", {Festivo})}),
     Occ("INFORMAL", "DIA", "CAMPO", <<"LAZER">>, {Rule("Material", {Festivo})}),
     Occ("INFORMAL", "DIA", "CAMPO", <<"FESTA">>, {Rule("Material", {Festivo})}),
     Occ("INFORMAL", "DIA", "CAMPO", DiaADia, {Rule("Material", {Festivo, Plano})}),
     Occ("INFORMAL", "NOITE", "CAMPO", <<"LAZER">>,
         {Rule("Material", {Festivo}), Rule("Estrutura", {Pesado})})}

WEATHER_EXCLUSIONS ==
    {[key |-> W("Hot"), rules |-> {Rule("Estrutura", {Pesado})}],
     [key |-> W("Cold"), rules |-> {Rule("Estrutura", {Leve})}]}

\* TABLE.get(key, {}): the rules of the matching entry, none when unmatched
RulesOf(table, key) == UNION {e.rules : e \in {x \in table : x.key = key}}
\* rules.get(attr_name, []) as a set of value names
RuleValues(rules, attr_name) == UNION {r.values : r \in {x \in rules : x.attr = attr_name}}

\* normalize_attribute_name: raw_attr.split('|')[0].strip()
normalize_attribute_name(raw_attr) ==
    LET bars == {i \in 1..Len(raw_attr) : raw_attr[i] = "|"}
        cut == IF bars = {} THEN Len(raw_attr) + 1 ELSE Min(bars)
    IN  SubSeq(raw_attr, 1, cut - 1)

\* f"value_{i}_{field}" and f"att_{i}", f"cat_{i}", f"cat_{i}_score"
ValueKey(i, field) == "value_" \o ToString(i) \o "_" \o field
AttKey(i) == "att_" \o ToString(i)
CatKey(i) == "cat_" \o ToString(i)
CatScoreKey(i) == "cat_" \o ToString(i) \o "_score"

(***************************************************************************)
(* Stage 4: exclusion filtering (run_user_query.py lines 211-252)          *)
(***************************************************************************)
\* mutant: the weather table is not consulted
ExclusionsOccasionOnly(context, attr_name) ==
    LET occ == GetOr(context, "occasion", EmptyDict)
        occasion_key == <<Get(occ, "formality"), Get(occ, "time"),
                          Get(occ, "location"), Get(occ, "activity")>>
    IN  RuleValues(RulesOf(OCCASION_EXCLUSIONS, occasion_key), attr_name)

\* exclusions = set(occasion_rules.get(attr_name, [])) | weather_rules.get(attr_name, [])
Exclusions(context, attr_name) ==
    LET occ == GetOr(context, "occasion", EmptyDict)
        weather == GetOr(context, "weather", EmptyDict)
        occasion_key == <<Get(occ, "formality"), Get(occ, "time"),
                          Get(occ, "location"), Get(occ, "activity")>>
        climate == Get(weather, "climate")
    IN  RuleValues(RulesOf(OCCASION_EXCLUSIONS, occasion_key), attr_name)
            \cup RuleValues(RulesOf(WEATHER_EXCLUSIONS, climate), attr_name)

ValueFields == {"id", "name", "score", "justification"}

\* mutant: the excluded names are not looked at
KeptValuesNamed(block, exclusions) ==
    SelectSeq(<<1, 2, 3>>, LAMBDA i : Truthy(Get(block, ValueKey(i, "name"))))

\* the indexes i in (1, 2, 3) whose value_i_name is set and not excluded, in order
KeptValues(block, exclusions) ==
    LET keep(i) == LET value_name == Get(block, ValueKey(i, "name"))
                   IN  Truthy(value_name)
                       /\ ~(value_name.t = "str" /\ value_name.s \in exclusions)
    IN  SelectSeq(<<1, 2, 3>>, keep)

\* new_block: the kept values renumbered from 1
NewBlock(block, kept) ==
    LET slots == (1..Len(kept)) \X ValueFields
        keys == {"attribute"} \cup {ValueKey(sf[1], sf[2]) : sf \in slots}
    IN  PyDict([k \in keys |->
            IF k = "attribute" THEN block.d["attribute"]
            ELSE LET sf == CHOOSE x \in slots : ValueKey(x[1], x[2]) = k
                 IN  Get(block, ValueKey(kept[sf[1]], sf[2]))])

\* one iteration of the loop: the blocks (none or one) appended to
\* filtered_detailed_results for result_block
FilterBlock(context, result_block) ==
    LET attr_name == normalize_attribute_name(result_block.d["attribute"].s)
        exclusions == Exclusions(context, attr_name)
        kept == KeptValues(result_block, exclusions)
    IN  IF exclusions = {} THEN <<result_block>>
        ELSE IF kept # <<>> THEN <<NewBlock(result_block, kept)>>
        ELSE <<>>

RECURSIVE FilterAll(_, _)
FilterAll(context, blocks) ==
    IF blocks = <<>> THEN <<>>
    ELSE FilterBlock(context, Head(blocks)) \o FilterAll(context, Tail(blocks))

\* the exception stage 4 raises, "none" when it completes:
\*   context_results.get on a str (line 212), result_block["attribute"] on a
\*   str (line 223) or on a dict without that key (line 223)
Stage4Exception(context, blocks) ==
    IF context.t # "dict" THEN "AttributeError"
    ELSE IF \E i \in 1..Len(blocks) : blocks[i].t # "dict" THEN "TypeError"
    ELSE IF \E i \in 1..Len(blocks) : "attribute" \notin DOMAIN blocks[i].d THEN "KeyError"
    ELSE "none"

(***************************************************************************)
(* Stage 5: the label list and the acceptance of categories (254-277)      *)
(***************************************************************************)
VALUE_SCORE_THRESHOLD == 7

\* the labels one filtered block contributes, as <<attribute, value name>>
BlockLabels(res) ==
    LET attr_name == Get(res, "attribute")
        v1 == Get(res, "value_1_name")
        v2 == Get(res, "value_2_name")
        s2 == Get(res, "value_2_score")
    IN  IF ~Truthy(attr_name) THEN <<>>
        ELSE (IF Truthy(v1) THEN <<(<<attr_name, v1>>)>> ELSE <<>>)
             \o (IF Truthy(v2) /\ IsInt(s2) /\ s2.n >= VALUE_SCORE_THRESHOLD
                 THEN <<(<<attr_name, v2>>)>> ELSE <<>>)

RECURSIVE fashion_attributes_list(_)
fashion_attributes_list(filtered) ==
    IF filtered = <<>> THEN <<>>
    ELSE BlockLabels(Head(filtered)) \o fashion_attributes_list(Tail(filtered))

NumSlots == 5

\* mutant: the threshold itself is accepted
AcceptedMut(cat_name, cat_score, threshold) ==
    Truthy(cat_name) /\ IsInt(cat_score) /\ cat_score.n >= threshold

\* line 276: the test that accepts cat_i
Accepted(cat_name, cat_score, threshold) ==
    Truthy(cat_name) /\ IsInt(cat_score) /\ cat_score.n > threshold

\* lines 271-277
RelevantCategories(results, threshold) ==
    IF ~Truthy(results) THEN <<>>
    ELSE LET ok(i) == Accepted(Get(results, CatKey(i)), Get(results, CatScoreKey(i)), threshold)
             idx == SelectSeq([i \in 1..NumSlots |-> i], ok)
         IN  [j \in 1..Len(idx) |-> Get(results, CatKey(idx[j]))]

\* lines 182-183
TopAttributes(results) ==
    LET ok(i) == Truthy(Get(results, AttKey(i)))
        idx == SelectSeq([i \in 1..NumSlots |-> i], ok)
    IN  [j \in 1..Len(idx) |-> Get(results, AttKey(idx[j]))]

(***************************************************************************)
(* Product Ranker: search_products_with_details (lines 80-146) over a      *)
(* sample store with the schema the queries use.                           *)
(***************************************************************************)
\* table attributes(id, name)
AttributesTable ==
    {[id |-> 1, name |-> "material"], [id |-> 3, name |-> "structure"]}

\* table products(product_id, category, ...)
ProductsTable ==
    {[product_id |-> 1, category |-> W("Vestidos")],
     [product_id |-> 2, category |-> W("Vestidos")],
     [product_id |-> 3, category |-> W("Vestidos")],
     [product_id |-> 4, category |-> W("Vestidos")],
     [product_id |-> 5, category |-> W("Sapatos")]}

\* table products_taxonomy(product_id, attribute_id, value_id, score)
ProductsTaxonomy ==
    {[product_id |-> 1, attribute_id |-> 1, value_id |-> 11, score |-> 5],
     [product_id |-> 1, attribute_id |-> 3, value_id |-> 31, score |-> 2],
     [product_id |-> 2, attribute_id |-> 1, value_id |-> 12, score |-> 5],
     [product_id |-> 3, attribute_id |-> 3, value_id |-> 31, score |-> 4],
     [product_id |-> 4, attribute_id |-> 1, value_id |-> 12, score |-> 5],
     [product_id |-> 5, attribute_id |-> 1, value_id |-> 11, score |-> 2]}

\* util_functions.to_int_safe on the values the blocks carry
to_int_safe(value) == IF value.t = "int" THEN value.n ELSE 0

\* lines 92-106: the triples one block contributes
BlockTriples(block) ==
    LET key == normalize_attribute_name(GetOr(block, "attribute", PyStr(<<>>)).s)
        info == {a \in ATTRIBUTE_INFO : a.key = key}
        rows == {r \in AttributesTable : \E a \in info : r.name = a.attr_name}
        has(i) == Get(block, ValueKey(i, "id")).t # "none"
                  /\ Get(block, ValueKey(i, "score")).t # "none"
        idx == SelectSeq(<<1, 2, 3>>, has)
    IN  IF rows = {} THEN <<>>
        ELSE LET attr_id == (CHOOSE r \in rows : TRUE).id
             IN  [j \in 1..Len(idx) |->
                    <<attr_id, to_int_safe(Get(block, ValueKey(idx[j], "id"))),
                      to_int_safe(Get(block, ValueKey(idx[j], "score")))>>]

RECURSIVE Triples(_)
Triples(blocks) ==
    IF blocks = <<>> THEN <<>> ELSE BlockTriples(Head(blocks)) \o Triples(Tail(blocks))

\* CASE WHEN attribute_id = ? AND value_id = ? THEN score * ? ... ELSE 0 END:
\* the first WHEN that matches decides
CaseScore(row, triples) ==
    LET hits == {i \in 1..Len(triples) :
                    triples[i][1] = row.attribute_id /\ triples[i][2] = row.value_id}
    IN  IF hits = {} THEN 0 ELSE row.score * triples[Min(hits)][3]

RECURSIVE SumCase(_, _)
SumCase(rows, triples) ==
    IF rows = {} THEN 0
    ELSE LET r == CHOOSE x \in rows : TRUE
         IN  CaseScore(r, triples) + SumCase(rows \ {r}, triples)

\* SUM(...) AS relevance_score ... GROUP BY product_id
RelevanceScore(product_id, triples) ==
    SumCase({r \in ProductsTaxonomy : r.product_id = product_id}, triples)

\* mutant: WHERE p.category = ? is left out
MatchingRowsAnyCategory(triples, category_name) ==
    {[product_id |-> p.product_id, category |-> p.category,
      relevance_score |-> RelevanceScore(p.product_id, triples)] :
        p \in {x \in ProductsTable : \E r \in ProductsTaxonomy : r.product_id = x.product_id}}

\* the rows of the final query before ORDER BY / LIMIT
MatchingRows(triples, category_name) ==
    {[product_id |-> p.product_id, category |-> p.category,
      relevance_score |-> RelevanceScore(p.product_id, triples)] :
        p \in {x \in ProductsTable :
                /\ \E r \in ProductsTaxonomy : r.product_id = x.product_id
                /\ Truthy(category_name) => x.category = category_name}}

\* ORDER BY relevance_score DESC LIMIT ?: every order of the ties is a
\* possible answer of the store; a negative LIMIT puts no upper bound on the
\* number of rows
OrderedLimited(rows, limit) ==
    LET n == IF limit < 0 \/ Cardinality(rows) < limit THEN Cardinality(rows) ELSE limit
    IN  {s \in [1..n -> rows] :
            /\ \A i, j \in 1..n : i < j =>
                    s[i] # s[j] /\ s[i].relevance_score >= s[j].relevance_score
            /\ \A r \in rows : (\A i \in 1..n : s[i] # r) =>
                    \A i \in 1..n : s[i].relevance_score >= r.relevance_score}

\* mutant: the query runs even without a triple
search_products_always_query(blocks, category_name, limit) ==
    OrderedLimited(MatchingRows(Triples(blocks), category_name), limit)

\* the exception search_products_with_details raises, "none" when it
\* returns: block.get on a block that is not a dict (line 93), or .split on
\* an attribute that is not a str (line 76, called at line 93)
SearchException(blocks) ==
    IF \E i \in 1..Len(blocks) : blocks[i].t # "dict" THEN "AttributeError"
    ELSE IF \E i \in 1..Len(blocks) : GetOr(blocks[i], "attribute", PyStr(<<>>)).t # "str"
         THEN "AttributeError"
    ELSE "none"

\* the lists search_products_with_details may return
search_products_with_details(blocks, category_name, limit) ==
    IF blocks = <<>> \/ Triples(blocks) = <<>> THEN {<<>>}
    ELSE OrderedLimited(MatchingRows(Triples(blocks), category_name), limit)

\* the arguments of the stage-6 call (lines 293-294)
SearchLimit == 3
\* mutant: the ranker is given the unfiltered detail set
SearchInputMut(detailed, filtered) == detailed
SearchInput(detailed, filtered) == filtered

(***************************************************************************)
(* Outcomes of the Prompt Executor (execute_prompt): None, the raw text    *)
(* parse_api_response passes through for a CSV-shaped response, or the     *)
(* parsed mapping, which may carry any subset of the expected keys.        *)
(***************************************************************************)
RawText == PyStr(<<"att_1;att_2">>)

CtxFull ==
    PyDict([occasion |-> PyDict([formality |-> W("FORMAL"), time |-> W("DIA"),
                                 location |-> W("CAMPO"), activity |-> W("FESTA")]),
            weather |-> PyDict([climate |-> W("Hot")])])
CtxPartial == PyDict([weather |-> PyDict([climate |-> W("Cold")])])
ContextOutcomes == {PyNone, RawText, EmptyDict, CtxFull, CtxPartial}

AttributeNames == {W("Material"), W("Estrutura"), PyStr(<<"Linha", "|", "Forma">>)}
AttributeOutcomes ==
    {PyNone, RawText}
        \cup {PyDict(f) : f \in UNION {[K -> AttributeNames] :
                                        K \in SUBSET {AttKey(i) : i \in 1..MaxSelected}}}

MaterialBlock ==
    PyDict([attribute |-> W("Material"),
            value_1_id |-> PyInt(11), value_1_name |-> PyStr(Couro),
            value_1_score |-> PyInt(9), value_1_justification |-> W("j1"),
            value_2_id |-> PyInt(12), value_2_name |-> W("Algodão"),
            value_2_score |-> PyInt(8)])
EstruturaBlock ==
    PyDict([attribute |-> PyStr(<<"Estrutura", "|", "Forma">>),
            value_1_id |-> PyInt(31), value_1_name |-> PyStr(Pesado),
            value_1_score |-> PyInt(9)])
\* a mapping without the "attribute" key
PartialBlock ==
    PyDict([value_1_id |-> PyInt(12), value_1_name |-> W("Algodão"),
            value_1_score |-> PyInt(8)])

\* analyze_single_attribute (lines 67-72): None without a call when the name
\* has no prompt, the executor's outcome otherwise
HasPrompt(attr) == attr.t = "str" /\ attr.s \in PROMPT_MAPPING
AnalyzeOutcomes(attr) ==
    IF ~HasPrompt(attr) THEN {PyNone}
    ELSE {PyNone, RawText}
            \cup (IF attr = W("Material") THEN {MaterialBlock, PartialBlock}
                  ELSE {EstruturaBlock})

Vestidos == W("Vestidos")
Sapatos == W("Sapatos")
CategoryOutcomes ==
    {PyNone, RawText, EmptyDict,
     PyDict([cat_1 |-> Vestidos, cat_1_score |-> PyInt(9),
             cat_2 |-> Sapatos, cat_2_score |-> PyInt(7)]),
     PyDict([cat_1 |-> Vestidos, cat_1_score |-> PyStr(<<"9">>)]),
     PyDict([cat_1 |-> Sapatos, cat_1_score |-> PyInt(6),
             cat_3 |-> Vestidos, cat_3_score |-> PyInt(8)]),
     PyDict([cat_1 |-> Vestidos, cat_1_score |-> PyInt(8),
             cat_2 |-> Vestidos, cat_2_score |-> PyInt(9)]),
     PyDict([cat_1 |-> Sapatos, cat_1_score |-> PyInt(6)]),
     PyDict([cat_2 |-> Sapatos])}

DefaultThreshold == 6
Thresholds == {DefaultThreshold, DefaultThreshold + 1}

(***************************************************************************)
(* Events.  `stage` is an annotation: the stage whose code yields the      *)
(* event (the program's events carry status, message/type and data only).  *)
(***************************************************************************)
Progress(n) == [status |-> "progress", stage |-> n]
ContextResult(data) == [status |-> "context_result", stage |-> 1, data |-> data]
Intermediate(type, n, data) ==
    [status |-> "intermediate_result", stage |-> n, type |-> type, data |-> data]
ErrorEvent(n) == [status |-> "error", stage |-> n]
FinalMessage == [status |-> "final_message", stage |-> 5]
FinalResult(data) == [status |-> "final_result", stage |-> 6, data |-> data]

ExecCall(n, result) == [fn |-> "execute_prompt", stage |-> n, result |-> result]
SearchCall(category, blocks, limit, products) ==
    [fn |-> "search_products_with_details", stage |-> 6, category |-> category,
     blocks |-> blocks, limit |-> limit, products |-> products]

(***************************************************************************)
(* process_user_query_streaming (run_user_query.py lines 149-298)          *)
(***************************************************************************)
EmptyContext == PyDict([occasion |-> EmptyDict, weather |-> EmptyDict])

\* mutants of the four tests below
ContextFallbackMut(results) == results
Stage2FailedMut(results) == results.t = "none"
CollectMut(detailed, result) == Append(detailed, result)

\* lines 162-163: fallback to an empty context if the prompt fails
ContextFallback(results) == IF ~Truthy(results) THEN EmptyContext ELSE results

\* line 178: `if not attribute_results`
Stage2Failed(results) == ~Truthy(results)

\* lines 199-200: `if result: detailed_results.append(result)`
Collect(detailed, result) == IF Truthy(result) THEN Append(detailed, result) ELSE detailed

\* line 204: `if not detailed_results`
Stage3Failed(detailed) == detailed = <<>>

InitPipeline ==
    /\ pc = "stage1"
    /\ events = <<>>
    /\ raised = "none"
    /\ calls = <<>>
    /\ category_score_threshold \in Thresholds
    /\ context_results = PyNone
    /\ attribute_results = PyNone
    /\ top_attributes_from_prompt = <<>>
    /\ futures = <<>>
    /\ detailed_results = <<>>
    /\ filtered_detailed_results = <<>>
    /\ category_results = PyNone
    /\ relevant_categories = <<>>
    /\ searched = 0
    /\ product_recommendations = <<>>

\* Step 1 (lines 155-166): one executor call, the fallback, context_result
Stage1Context(out) ==
    /\ pc = "stage1"
    /\ context_results' = ContextFallback(out)
    /\ calls' = Append(calls, ExecCall(1, out))
    /\ events' = events \o <<Progress(1), ContextResult(context_results')>>
    /\ pc' = "stage2"
    /\ UNCHANGED <<raised, category_score_threshold, attribute_results,
                   top_attributes_from_prompt, futures, detailed_results,
                   filtered_detailed_results, category_results, relevant_categories,
                   searched, product_recommendations>>
    /\ UNCHANGED <<qvars, fvars, rvars, mvars, warmvars, evars, xvars, restvars>>

\* Step 2 (lines 174-188): one executor call; a failed call is fatal;
\* attribute_results.get on a str raises AttributeError
Stage2Attributes(out) ==
    /\ pc = "stage2"
    /\ attribute_results' = out
    /\ calls' = Append(calls, ExecCall(2, out))
    /\ IF Stage2Failed(out)
       THEN /\ events' = events \o <<Progress(2), ErrorEvent(2)>>
            /\ pc' = "done"
            /\ UNCHANGED <<raised, top_attributes_from_prompt>>
       ELSE IF out.t # "dict"
       THEN /\ events' = Append(events, Progress(2))
            /\ raised' = "AttributeError"
            /\ pc' = "done"
            /\ UNCHANGED top_attributes_from_prompt
       ELSE /\ top_attributes_from_prompt' = TopAttributes(out)
            /\ events' = events \o <<Progress(2),
                                     Intermediate("attributes", 2, top_attributes_from_prompt')>>
            /\ pc' = "stage3"
            /\ UNCHANGED raised
    /\ UNCHANGED <<category_score_threshold, context_results, futures, detailed_results,
                   filtered_detailed_results, category_results, relevant_categories,
                   searched, product_recommendations>>
    /\ UNCHANGED <<qvars, fvars, rvars, mvars, warmvars, evars, xvars, restvars>>

\* Step 3 (lines 191-195): one future per selected attribute is submitted
Stage3Submit ==
    /\ pc = "stage3"
    /\ events' = Append(events, Progress(3))
    /\ futures' = [i \in 1..Len(top_attributes_from_prompt) |->
                      [attr |-> top_attributes_from_prompt[i], done |-> FALSE,
                       result |-> PyNone]]
    /\ detailed_results' = <<>>
    /\ pc' = "collect"
    /\ UNCHANGED <<raised, calls, category_score_threshold, context_results,
                   attribute_results, top_attributes_from_prompt,
                   filtered_detailed_results, category_results, relevant_categories,
                   searched, product_recommendations>>
    /\ UNCHANGED <<qvars, fvars, rvars, mvars, warmvars, evars, xvars, restvars>>

\* lines 196-200: a future completes, in any order, and as_completed hands
\* its result to the collecting loop
Stage3Complete(i, out) ==
    /\ pc = "collect"
    /\ i \in DOMAIN futures
    /\ ~futures[i].done
    /\ out \in AnalyzeOutcomes(futures[i].attr)
    /\ futures' = [futures EXCEPT ![i] = [@ EXCEPT !.done = TRUE, !.result = out]]
    /\ calls' = IF HasPrompt(futures[i].attr) THEN Append(calls, ExecCall(3, out)) ELSE calls
    /\ detailed_results' = Collect(detailed_results, out)
    /\ UNCHANGED <<pc, events, raised, category_score_threshold, context_results,
                   attribute_results, top_attributes_from_prompt,
                   filtered_detailed_results, category_results, relevant_categories,
                   searched, product_recommendations>>
    /\ UNCHANGED <<qvars, fvars, rvars, mvars, warmvars, evars, xvars, restvars>>

\* lines 204-252: after the pool has shut down, the fatal check of stage 3
\* and Step 4, the exclusion filter
Stage4Exclusions ==
    /\ pc = "collect"
    /\ \A i \in DOMAIN futures : futures[i].done
    /\ IF Stage3Failed(detailed_results)
       THEN /\ events' = Append(events, ErrorEvent(3))
            /\ pc' = "done"
            /\ UNCHANGED <<raised, filtered_detailed_results>>
       ELSE /\ events' = Append(events, Progress(4))
            /\ LET ex == Stage4Exception(context_results, detailed_results)
               IN  IF ex # "none"
                   THEN /\ raised' = ex
                        /\ pc' = "done"
                        /\ UNCHANGED filtered_detailed_results
                   ELSE /\ filtered_detailed_results' =
                                FilterAll(context_results, detailed_results)
                        /\ pc' = "stage5"
                        /\ UNCHANGED raised
    /\ UNCHANGED <<calls, category_score_threshold, context_results, attribute_results,
                   top_attributes_from_prompt, futures, detailed_results,
                   category_results, relevant_categories, searched,
                   product_recommendations>>
    /\ UNCHANGED <<qvars, fvars, rvars, mvars, warmvars, evars, xvars, restvars>>

\* Step 5 (lines 255-287): the label list, one executor call, the accepted
\* categories; category_results.get on a str raises AttributeError
Stage5Categories(out) ==
    /\ pc = "stage5"
    /\ category_results' = out
    /\ calls' = Append(calls, [fn |-> "execute_prompt", stage |-> 5, result |-> out,
                               fashion_attributes |->
                                   fashion_attributes_list(filtered_detailed_results)])
    /\ IF Truthy(out) /\ out.t # "dict"
       THEN /\ events' = Append(events, Progress(5))
            /\ raised' = "AttributeError"
            /\ pc' = "done"
            /\ UNCHANGED relevant_categories
       ELSE /\ relevant_categories' = RelevantCategories(out, category_score_threshold)
            /\ events' = events
                    \o <<Progress(5), Intermediate("categories", 5, relevant_categories')>>
                    \o (IF relevant_categories' = <<>> THEN <<FinalMessage>>
                        ELSE <<Progress(6)>>)
            /\ pc' = IF relevant_categories' = <<>> THEN "done" ELSE "stage6"
            /\ UNCHANGED raised
    /\ UNCHANGED <<category_score_threshold, context_results, attribute_results,
                   top_attributes_from_prompt, futures, detailed_results,
                   filtered_detailed_results, searched, product_recommendations>>
    /\ UNCHANGED <<qvars, fvars, rvars, mvars, warmvars, evars, xvars, restvars>>

\* Step 6 (lines 292-295): one iteration of the loop over relevant_categories
Stage6Search ==
    /\ pc = "stage6"
    /\ searched < Len(relevant_categories)
    /\ LET category == relevant_categories[searched + 1]
           blocks == SearchInput(detailed_results, filtered_detailed_results)
       IN  \E products \in search_products_with_details(blocks, category, SearchLimit) :
           /\ calls' = Append(calls, SearchCall(category, blocks, SearchLimit, products))
           /\ product_recommendations' =
                [c \in DOMAIN product_recommendations \cup {category} |->
                    IF c = category THEN products ELSE product_recommendations[c]]
    /\ searched' = searched + 1
    /\ UNCHANGED <<pc, events, raised, category_score_threshold, context_results,
                   attribute_results, top_attributes_from_prompt, futures,
                   detailed_results, filtered_detailed_results, category_results,
                   relevant_categories>>
    /\ UNCHANGED <<qvars, fvars, rvars, mvars, warmvars, evars, xvars, restvars>>

\* line 298: the final payload
Stage6Final ==
    /\ pc = "stage6"
    /\ searched = Len(relevant_categories)
    /\ events' = Append(events, FinalResult(PyDict(product_recommendations)))
    /\ pc' = "done"
    /\ UNCHANGED <<raised, calls, category_score_threshold, context_results,
                   attribute_results, top_attributes_from_prompt, futures,
                   detailed_results, filtered_detailed_results, category_results,
                   relevant_categories, searched, product_recommendations>>
    /\ UNCHANGED <<qvars, fvars, rvars, mvars, warmvars, evars, xvars, restvars>>

Next ==
    \/ \E out \in ContextOutcomes : Stage1Context(out)
    \/ \E out \in AttributeOutcomes : Stage2Attributes(out)
    \/ Stage3Submit
    \/ \E i \in DOMAIN futures : \E out \in AnalyzeOutcomes(futures[i].attr) :
            Stage3Complete(i, out)
    \/ Stage4Exclusions
    \/ \E out \in CategoryOutcomes : Stage5Categories(out)
    \/ Stage6Search
    \/ Stage6Final

\* the canonicalizer and the cache directory are not used by the generator
NotComputed == <<"<not computed>">>
IdleCanon ==
    /\ qa = <<>> /\ qb = <<>>
    /\ keyA = NotComputed /\ keyB = NotComputed /\ keyBB = NotComputed
IdleCache == files = <<>> /\ lastWrite = <<>> /\ lastRead = <<>>
IdleManifest ==
    /\ csv = <<>> /\ mpc = "idle" /\ rline = 0 /\ rowlist = <<>>
    /\ seen_keys = <<>> /\ seen_files = <<>> /\ mraised = <<>>
    /\ returned_rows = PyNone /\ loaded_index = PyNone
IdlePrewarm ==
    /\ overwrite = FALSE /\ row_limit = PyNone /\ total = 0 /\ nwritten = 0 /\ skipped = 0
    /\ plog = <<>> /\ files0 = <<>> /\ presult = PyNone
NotCalled == [t |-> "not called"]
IdleExec ==
    /\ eargs = <<>> /\ epc = "idle" /\ retry = FALSE /\ attempts = <<>>
    /\ model_result = NotCalled /\ eresult = NotCalled /\ eraised = "none"
    /\ efailure = "none"
IdleExclusions == xcontext = PyNone /\ xattribute = <<>> /\ xexclusions = PyNone
IdleDetail ==
    /\ dcontext = PyNone /\ ddetailed = PyNone /\ dfiltered = PyNone
    /\ dlabels = PyNone /\ dsearch = <<>> /\ dorder = <<>>
IdleGroup == gfinal = PyNone /\ gcap = 0 /\ ggrouped = PyNone
IdleSidebar ==
    /\ spc = "idle" /\ srows = <<>> /\ soverwrite = FALSE /\ slimit = 0
    /\ scount = <<>> /\ slog = <<>>
IdleCounters ==
    /\ total_input_tokens = 0 /\ total_output_tokens = 0 /\ num_api_calls = 0
    /\ kpc = <<>> /\ kresponse = <<>> /\ kloaded = <<>>
IdleRest == IdleDetail /\ IdleGroup /\ IdleSidebar /\ IdleCounters
IdleRace ==
    /\ wpc = <<>> /\ wlen = <<>> /\ dentry = <<>> /\ inodes = <<>>
    /\ wfd = <<>> /\ woff = <<>> /\ wraised = <<>>

Init == InitPipeline /\ IdleCanon /\ IdleCache /\ IdleRace /\ IdleManifest /\ IdlePrewarm /\ IdleExec /\ IdleExclusions /\ IdleRest
Spec == Init /\ [][Next]_vars

(***************************************************************************)
(* Properties of the pipeline                                              *)
(***************************************************************************)
Terminal(e) == e.status \in {"final_result", "final_message", "error"}
TerminalIdx == {i \in DOMAIN events : Terminal(events[i])}
Last(seq) == seq[Len(seq)]
CallsOf(n) == {i \in DOMAIN calls : calls[i].stage = n}
SearchCalls == SelectSeq(calls, LAMBDA c : c.fn = "search_products_with_details")
Emitted(e) == \E i \in DOMAIN events : events[i] = e

\* C1: whatever the executor and the ranker return, no exception escapes the
\* generator: a finished run raised nothing and ended with a terminal event.
C1_NoExceptionEscapes ==
    pc = "done" => raised = "none" /\ events # <<>> /\ Terminal(Last(events))

\* C2: the events of stage N precede those of stage N+1, the progress
\* messages count 1, 2, ... in order, and a finished run has exactly one
\* terminal event, which is its last event.
C2_OrderedOneTerminalLast ==
    /\ \A i, j \in DOMAIN events : i < j => events[i].stage <= events[j].stage
    /\ LET prog == SelectSeq(events, LAMBDA e : e.status = "progress")
       IN  \A k \in DOMAIN prog : prog[k].stage = k
    /\ Cardinality(TerminalIdx) <= 1
    /\ pc = "done" => TerminalIdx = {Len(events)}

\* C3: once the stage-2 call has returned None or an empty result, the event
\* after "progress 2" is the error event, it ends the stream, and no call
\* and no event of stages 3 to 6 exists.
C3_Stage2FailureFatal ==
    (CallsOf(2) # {} /\ ~Truthy(attribute_results)) =>
        /\ pc = "done" /\ raised = "none"
        /\ events = <<Progress(1), ContextResult(context_results),
                      Progress(2), ErrorEvent(2)>>
        /\ \A i \in DOMAIN calls : calls[i].stage <= 2
        /\ futures = <<>> /\ searched = 0

C3_Witness ==
    /\ CallsOf(2) # {} /\ attribute_results = EmptyDict
    /\ pc = "done" /\ Last(events).status = "error"

\* every call after stage 1 succeeded: stage 2 selected attributes, each
\* analysis returned a block naming its attribute, stage 5 returned a mapping
LaterCallsSucceeded ==
    /\ attribute_results.t = "dict"
    /\ futures # <<>>
    /\ \A i \in DOMAIN futures :
            futures[i].result.t = "dict" /\ "attribute" \in DOMAIN futures[i].result.d
    /\ category_results.t = "dict"

Stage1Returned == IF CallsOf(1) = {} THEN RawText ELSE calls[1].result

\* C4: a failed stage-1 call is replaced by the empty context, which
\* context_result carries; stage 2 runs next; and when every later call
\* succeeds the run ends in final_result or final_message, not in an error.
C4_ContextFailureNotFatal ==
    (CallsOf(1) # {} /\ ~Truthy(Stage1Returned)) =>
        /\ context_results = EmptyContext
        /\ events[2] = ContextResult(EmptyContext)
        /\ pc = "stage2" \/ CallsOf(2) # {}
        /\ (pc = "done" /\ LaterCallsSucceeded) =>
                /\ raised = "none"
                /\ Last(events).status \in {"final_result", "final_message"}

C4_Witness ==
    /\ CallsOf(1) # {} /\ Stage1Returned = PyNone
    /\ pc = "done" /\ LaterCallsSucceeded
    /\ Last(events).status = "final_result"

Succeeded(i) == futures[i].done /\ Truthy(futures[i].result)
Stage3Submitted == Emitted(Progress(3))
Stage3Over == Stage3Submitted /\ pc # "collect"

\* C5: the detail set holds, in completion order, exactly the results of the
\* calls that succeeded, one per selected attribute; after the stage the
\* stream carries the stage-3 error iff no call succeeded, and otherwise the
\* pipeline has entered stage 4.
C5_DetailSetIsTheSuccesses ==
    Stage3Submitted =>
        /\ Len(futures) = Len(top_attributes_from_prompt)
        /\ \A i \in DOMAIN futures : futures[i].attr = top_attributes_from_prompt[i]
        /\ Len(detailed_results) = Cardinality({i \in DOMAIN futures : Succeeded(i)})
        /\ \A i \in DOMAIN futures :
                Cardinality({j \in DOMAIN detailed_results :
                                detailed_results[j] = futures[i].result})
                    = IF Succeeded(i)
                      THEN Cardinality({k \in DOMAIN futures :
                                Succeeded(k) /\ futures[k].result = futures[i].result})
                      ELSE 0
        /\ Stage3Over =>
                /\ Emitted(ErrorEvent(3)) <=> (\A i \in DOMAIN futures : ~Succeeded(i))
                /\ (\E i \in DOMAIN futures : Succeeded(i)) => Emitted(Progress(4))

\* the second future completed first, the first one later, and both count
C5_Witness ==
    /\ Stage3Over /\ Len(futures) = 2
    /\ futures[1].result = MaterialBlock /\ futures[2].result = EstruturaBlock
    /\ detailed_results = <<EstruturaBlock, MaterialBlock>>
    /\ Emitted(Progress(4))

Qualifies(i) ==
    LET name == Get(category_results, CatKey(i))
        score == Get(category_results, CatScoreKey(i))
    IN  Truthy(name) /\ score.t = "int" /\ score.n > category_score_threshold
NoneQualifies ==
    \/ category_results.t = "none"
    \/ category_results.t = "dict" /\ \A i \in 1..NumSlots : ~Qualifies(i)

RECURSIVE TotalLen(_, _)
TotalLen(d, keys) ==
    IF keys = {} THEN 0
    ELSE LET k == CHOOSE x \in keys : TRUE IN Len(d[k]) + TotalLen(d, keys \ {k})

\* C7: the payload of final_result maps exactly the accepted categories; the
\* ranker was called once per accepted category, in order, on the filtered
\* detail set with limit 3; each category maps to what the ranker returned
\* for it; no category has more than 3 products, the payload at most 15.
C7_PayloadIsRankerOutput ==
    (pc = "done" /\ events # <<>> /\ Last(events).status = "final_result") =>
        LET data == Last(events).data.d
        IN  /\ DOMAIN data = {relevant_categories[j] : j \in DOMAIN relevant_categories}
            /\ Len(SearchCalls) = Len(relevant_categories)
            /\ \A j \in DOMAIN SearchCalls :
                    /\ SearchCalls[j].category = relevant_categories[j]
                    /\ SearchCalls[j].limit = 3
                    /\ SearchCalls[j].blocks = filtered_detailed_results
                    /\ SearchCalls[j].blocks = FilterAll(context_results, detailed_results)
                    /\ SearchCalls[j].products \in
                           search_products_with_details(filtered_detailed_results,
                                                        relevant_categories[j], 3)
            /\ \A c \in DOMAIN data :
                    /\ Len(data[c]) <= 3
                    /\ \E j \in DOMAIN SearchCalls :
                            /\ SearchCalls[j].category = c
                            /\ SearchCalls[j].products = data[c]
                            /\ \A k \in DOMAIN SearchCalls :
                                    k > j => SearchCalls[k].category # c
            /\ TotalLen(data, DOMAIN data) <= 15

\* two categories, the filter removed a value, and the limit cut a list
C7_Witness ==
    /\ pc = "done" /\ events # <<>> /\ Last(events).status = "final_result"
    /\ filtered_detailed_results # detailed_results
    /\ DOMAIN Last(events).data.d = {Vestidos, Sapatos}
    /\ Len(Last(events).data.d[Vestidos]) = 3
    /\ Cardinality(MatchingRows(Triples(filtered_detailed_results), Vestidos)) > 3

(***************************************************************************)
(* canonicalize_query (data/cache_runtime.py lines 20-29).  A text is a    *)
(* sequence of characters; the alphabet has lower and upper case letters,  *)
(* precomposed accented letters, the combining acute accent (category Mn), *)
(* the space and punctuation.                                              *)
(***************************************************************************)
CombiningAcute == "U+0301"
LowerLetters == {"a", "b"}
Punctuation == {",", "!"}

RECURSIVE NFKC(_)
\* unicodedata.normalize("NFKC", text): canonical composition
NFKC(text) ==
    IF Len(text) < 2 THEN text
    ELSE IF text[2] = CombiningAcute /\ text[1] \in {"a", "A"}
         THEN <<(IF text[1] = "a" THEN "á" ELSE "Á")>> \o NFKC(SubSeq(text, 3, Len(text)))
         ELSE <<text[1]>> \o NFKC(Tail(text))

\* str.casefold
CaseFold(text) ==
    [i \in 1..Len(text) |->
        CASE text[i] = "A" -> "a"
          [] text[i] = "B" -> "b"
          [] text[i] = "Á" -> "á"
          [] OTHER -> text[i]]

RECURSIVE NFD(_)
\* unicodedata.normalize("NFD", text): canonical decomposition
NFD(text) ==
    IF text = <<>> THEN <<>>
    ELSE (CASE Head(text) = "á" -> <<"a", CombiningAcute>>
            [] Head(text) = "Á" -> <<"A", CombiningAcute>>
            [] OTHER -> <<Head(text)>>) \o NFD(Tail(text))

\* "".join(c for c in ... if unicodedata.category(c) != "Mn")
DropMarks(text) == SelectSeq(text, LAMBDA c : c # CombiningAcute)

RECURSIVE Strip(_)
\* str.strip()
Strip(text) ==
    IF text = <<>> THEN <<>>
    ELSE IF Head(text) = " " THEN Strip(Tail(text))
    ELSE IF text[Len(text)] = " " THEN Strip(SubSeq(text, 1, Len(text) - 1))
    ELSE text

RECURSIVE CollapseRuns(_)
\* " ".join(text.split()) on a stripped text: each run of spaces becomes one
CollapseRuns(text) ==
    IF Len(text) < 2 THEN text
    ELSE IF text[1] = " " /\ text[2] = " " THEN CollapseRuns(Tail(text))
    ELSE <<text[1]>> \o CollapseRuns(Tail(text))

\* re.sub(r"[^a-z0-9 ]+", "", text)
StripNonAlnum(text) == SelectSeq(text, LAMBDA c : c \in LowerLetters \cup {" "})

canonicalize_query(text) ==
    LET t1 == CaseFold(NFKC(text))
        t2 == DropMarks(NFD(t1))
        t3 == CollapseRuns(Strip(t2))
        t4 == StripNonAlnum(t3)
    IN  Strip(t4)

BaseQueries == {<<"a", " ", "b">>, <<"a", "b">>, <<"b", " ", "a", "b">>}

IdlePipeline ==
    /\ pc = "idle" /\ events = <<>> /\ raised = "none" /\ calls = <<>>
    /\ category_score_threshold = DefaultThreshold
    /\ context_results = PyNone /\ attribute_results = PyNone
    /\ top_attributes_from_prompt = <<>> /\ futures = <<>>
    /\ detailed_results = <<>> /\ filtered_detailed_results = <<>>
    /\ category_results = PyNone /\ relevant_categories = <<>>
    /\ searched = 0 /\ product_recommendations = <<>>

InitCanon ==
    /\ qa \in BaseQueries
    /\ qb = qa
    /\ keyA = NotComputed /\ keyB = NotComputed /\ keyBB = NotComputed
    /\ IdlePipeline /\ IdleCache /\ IdleRace /\ IdleManifest /\ IdlePrewarm /\ IdleExec /\ IdleExclusions /\ IdleRest

InsertAt(text, i, c) == SubSeq(text, 1, i) \o <<c>> \o SubSeq(text, i + 1, Len(text))
CanEdit == keyA = NotComputed
CanInsert == CanEdit /\ Len(qb) < Len(qa) + MaxEdits

\* the variant differs in letter case
EditCase(i) ==
    /\ CanEdit /\ i \in DOMAIN qb /\ qb[i] \in {"a", "b", "á"}
    /\ qb' = [qb EXCEPT ![i] = CASE @ = "a" -> "A" [] @ = "b" -> "B" [] @ = "á" -> "Á"]
    /\ UNCHANGED <<qa, keyA, keyB, keyBB, pvars, fvars, rvars, mvars, warmvars, evars, xvars, restvars>>

\* the variant differs in an accent
EditAccent(i) ==
    /\ CanEdit /\ i \in DOMAIN qb /\ qb[i] \in {"a", "A"}
    /\ qb' = [qb EXCEPT ![i] = IF @ = "a" THEN "á" ELSE "Á"]
    /\ UNCHANGED <<qa, keyA, keyB, keyBB, pvars, fvars, rvars, mvars, warmvars, evars, xvars, restvars>>

\* the variant has a punctuation character more, at any place
EditPunctuation(i, c) ==
    /\ CanInsert /\ i \in 0..Len(qb) /\ c \in Punctuation
    /\ qb' = InsertAt(qb, i, c)
    /\ UNCHANGED <<qa, keyA, keyB, keyBB, pvars, fvars, rvars, mvars, warmvars, evars, xvars, restvars>>

\* the variant has more whitespace between two words
EditWhitespace(i) ==
    /\ CanInsert /\ i \in DOMAIN qb /\ qb[i] = " "
    /\ qb' = InsertAt(qb, i, " ")
    /\ UNCHANGED <<qa, keyA, keyB, keyBB, pvars, fvars, rvars, mvars, warmvars, evars, xvars, restvars>>

\* both queries are canonicalized
Canonicalize ==
    /\ keyA = NotComputed
    /\ keyA' = canonicalize_query(qa)
    /\ keyB' = canonicalize_query(qb)
    /\ UNCHANGED <<qa, qb, keyBB, pvars, fvars, rvars, mvars, warmvars, evars, xvars, restvars>>

\* the canonical key is canonicalized again
Recanonicalize ==
    /\ keyB # NotComputed /\ keyBB = NotComputed
    /\ keyBB' = canonicalize_query(keyB)
    /\ UNCHANGED <<qa, qb, keyA, keyB, pvars, fvars, rvars, mvars, warmvars, evars, xvars, restvars>>

NextCanon ==
    \/ \E i \in DOMAIN qb : EditCase(i)
    \/ \E i \in DOMAIN qb : EditAccent(i)
    \/ \E i \in 0..Len(qb) : \E c \in Punctuation : EditPunctuation(i, c)
    \/ \E i \in DOMAIN qb : EditWhitespace(i)
    \/ Canonicalize
    \/ Recanonicalize

SpecCanon == InitCanon /\ [][NextCanon]_vars

\* C8: canonicalize_query is idempotent: canonicalizing a canonical key
\* gives the same key.
C8_Idempotent == keyBB # NotComputed => keyBB = keyB

\* C9: a query and a variant of it that differs only in accents, case,
\* punctuation or the amount of whitespace between words have the same key.
C9_VariantsShareKey == keyA # NotComputed => keyA = keyB

(***************************************************************************)
(* Cache store (data/cache_runtime.py lines 116-189).  A file holds a JSON *)
(* document or text that does not parse; json.dump and json.load are the   *)
(* conversions between Python values and JSON documents.                   *)
(***************************************************************************)
PySet == [t |-> "set"]
JNull == [j |-> "null"]
JStr(s) == [j |-> "str", s |-> s]
JNum(n) == [j |-> "num", n |-> n]
JArr(a) == [j |-> "arr", a |-> a]
JObj(m) == [j |-> "obj", m |-> m]

\* the JSON member name json.dump writes for a dict key
KeyStr(k) == IF k.t = "int" THEN <<ToString(k.n)>> ELSE k.s

RECURSIVE Serializable(_)
\* json.dump raises TypeError on a set and on a key that is no str or int
Serializable(v) ==
    CASE v.t \in {"none", "str", "int"} -> TRUE
      [] v.t \in {"list", "tuple"} -> \A i \in DOMAIN v.l : Serializable(v.l[i])
      [] v.t = "dict" -> \A k \in DOMAIN v.d : k.t \in {"str", "int"} /\ Serializable(v.d[k])
      [] OTHER -> FALSE

RECURSIVE JsonDump(_)
\* json.dump: the document written for a serializable value
JsonDump(v) ==
    CASE v.t = "none" -> JNull
      [] v.t = "str" -> JStr(v.s)
      [] v.t = "int" -> JNum(v.n)
      [] v.t \in {"list", "tuple"} -> JArr([i \in DOMAIN v.l |-> JsonDump(v.l[i])])
      [] v.t = "dict" ->
            JObj([name \in {KeyStr(k) : k \in DOMAIN v.d} |->
                    JsonDump(v.d[CHOOSE k \in DOMAIN v.d : KeyStr(k) = name])])

RECURSIVE JsonLoad(_)
\* json.load: the value parsed from a document
JsonLoad(doc) ==
    CASE doc.j = "null" -> PyNone
      [] doc.j = "str" -> PyStr(doc.s)
      [] doc.j = "num" -> PyInt(doc.n)
      [] doc.j = "arr" -> PyList([i \in DOMAIN doc.a |-> JsonLoad(doc.a[i])])
      [] doc.j = "obj" ->
            PyDict([k \in {PyStr(name) : name \in DOMAIN doc.m} |-> JsonLoad(doc.m[k.s])])

Absent == [kind |-> "absent"]
Garbage == [kind |-> "garbage"]
Doc(j) == [kind |-> "json", doc |-> j]

CacheFiles == {"f1.json", "f2.json"}
\* path.with_suffix(path.suffix + ".tmp")
TmpOf(filename) == filename \o ".tmp"
Paths == CacheFiles \cup {TmpOf(f) : f \in CacheFiles}

KeyA_B == <<"a", " ", "b">>
KeyAB == <<"a", "b">>
\* the index load_index built: canonical key -> filename
Index == [k \in {KeyA_B, KeyAB} |-> IF k = KeyA_B THEN "f1.json" ELSE "f2.json"]
LookupKeys == {KeyA_B, KeyAB, <<"b">>}

NORM_VERSION == W("v1")

build_envelope(query_raw, query_norm, result, filename) ==
    PyDict(W("query_raw") :> PyStr(query_raw)
           @@ W("query_norm") :> PyStr(query_norm)
           @@ W("generated_at") :> W("2026-01-01T00:00:00+00:00")
           @@ W("meta") :> PyDict(W("source") :> W("prewarm_from_file")
                                  @@ W("file") :> W(filename)
                                  @@ W("norm_version") :> NORM_VERSION)
           @@ W("result") :> result)

\* write_cache: the directory afterwards and the exception raised ("none"
\* when the call returns)
write_cache(filename, envelope, dir) ==
    LET tmp == TmpOf(filename)
    IN  IF Truthy(Get(envelope, W("query_norm"))) /\ Get(envelope, W("result")).t # "dict"
        THEN [dir |-> dir, raised |-> "ValueError"]
        ELSE IF ~Serializable(envelope)
        THEN [dir |-> [dir EXCEPT ![tmp] = Garbage], raised |-> "TypeError"]
        ELSE LET written == [dir EXCEPT ![tmp] = Doc(JsonDump(envelope))]
                 replaced == [written EXCEPT ![filename] = written[tmp], ![tmp] = Absent]
             IN  [dir |-> replaced,
                  raised |-> IF replaced[filename].kind = "json" THEN "none"
                             ELSE "JSONDecodeError"]

\* mutant: a stored query_norm that differs from the key is a miss
get_cached_result_strict(canonical_key, index, dir) ==
    IF canonical_key \notin DOMAIN index THEN PyNone
    ELSE LET file == dir[index[canonical_key]]
         IN  IF file.kind # "json" THEN PyNone
             ELSE LET envelope == JsonLoad(file.doc)
                  IN  IF envelope.t # "dict" THEN PyNone
                      ELSE IF Get(envelope, W("query_norm")) # PyStr(canonical_key)
                      THEN PyNone
                      ELSE Get(envelope, W("result"))

\* the try block of get_cached_result (lines 180-186): open, json.load and
\* envelope.get("result"); `raised` is the exception the block ends with
ReadEnvelope(file) ==
    IF file.kind = "garbage" THEN [raised |-> "JSONDecodeError", value |-> PyNone]
    ELSE LET envelope == JsonLoad(file.doc)
         IN  IF envelope.t # "dict" THEN [raised |-> "AttributeError", value |-> PyNone]
             ELSE [raised |-> "none", value |-> Get(envelope, W("result"))]

\* mutant: the handler catches parse errors only
HandledParseOnly(exc) == exc = "JSONDecodeError"

\* `except Exception` (line 187): every exception of the try block is handled
Handled(exc) == exc # "none"

\* get_cached_result as a call: the value returned and the exception that
\* leaves the call ("none" when it returns)
GetCachedResultCall(canonical_key, index, dir) ==
    IF canonical_key \notin DOMAIN index THEN [raised |-> "none", value |-> PyNone]
    ELSE LET file == dir[index[canonical_key]]
         IN  IF file.kind = "absent" THEN [raised |-> "none", value |-> PyNone]
             ELSE LET body == ReadEnvelope(file)
                  IN  IF body.raised = "none" THEN body
                      ELSE IF Handled(body.raised) THEN [raised |-> "none", value |-> PyNone]
                      ELSE body

\* get_cached_result: None when the key is not indexed, the file is missing,
\* the content does not parse or is no object; envelope.get("result") otherwise
get_cached_result(canonical_key, index, dir) ==
    GetCachedResultCall(canonical_key, index, dir).value

ProductRow == PyDict(W("product_id") :> PyInt(1) @@ W("price") :> PyStr(<<"R$", "1,00">>))
SampleResults ==
    {PyDict(Vestidos :> PyList(<<ProductRow>>)),
     EmptyDict,
     PyDict(PyInt(5) :> PyList(<<>>)),
     PyDict(Sapatos :> PySet),
     PyList(<<ProductRow>>)}
SampleNorms == {KeyAB, <<>>}

InitCache ==
    /\ \E c \in {Absent, Garbage, Doc(JArr(<<>>))} :
            files = [p \in Paths |-> IF p = "f1.json" THEN c ELSE Absent]
    /\ lastWrite = [f \in CacheFiles |-> PyNone]
    /\ lastRead = <<>>
    /\ IdlePipeline /\ IdleCanon /\ IdleRace /\ IdleManifest /\ IdlePrewarm /\ IdleExec /\ IdleExclusions /\ IdleRest

\* a call of write_cache(filename, envelope)
WriteCache(filename, query_norm, result) ==
    LET envelope == build_envelope(<<"A", " ", "b", "!">>, query_norm, result, filename)
        done == write_cache(filename, envelope, files)
    IN  /\ files' = done.dir
        /\ lastWrite' = IF done.raised = "none"
                        THEN [lastWrite EXCEPT ![filename] = envelope] ELSE lastWrite
        /\ UNCHANGED <<lastRead, pvars, qvars, rvars, mvars, warmvars, evars, xvars, restvars>>

\* a call of get_cached_result(canonical_key, index); `seen` notes the content
\* of the key's file and `expected` the envelope last written to it at the
\* time of the call
GetCachedResult(canonical_key) ==
    /\ lastRead' = [key |-> canonical_key,
                    result |-> get_cached_result(canonical_key, Index, files),
                    raised |-> GetCachedResultCall(canonical_key, Index, files).raised,
                    seen |-> IF canonical_key \in DOMAIN Index
                             THEN files[Index[canonical_key]] ELSE [kind |-> "unindexed"],
                    expected |-> IF canonical_key \in DOMAIN Index
                                 THEN lastWrite[Index[canonical_key]] ELSE PyNone]
    /\ UNCHANGED <<files, lastWrite, pvars, qvars, rvars, mvars, warmvars, evars, xvars, restvars>>

NextCache ==
    \/ \E f \in CacheFiles : \E n \in SampleNorms : \E r \in SampleResults : WriteCache(f, n, r)
    \/ \E k \in LookupKeys : GetCachedResult(k)

SpecCache == InitCache /\ [][NextCache]_vars

RECURSIVE JsonNative(_)
\* the values JSON represents exactly: str, int, None, lists of such and
\* dicts of such whose keys are all str
JsonNative(v) ==
    CASE v.t \in {"none", "str", "int"} -> TRUE
      [] v.t = "list" -> \A i \in DOMAIN v.l : JsonNative(v.l[i])
      [] v.t = "dict" -> \A k \in DOMAIN v.d : k.t = "str" /\ JsonNative(v.d[k])
      [] OTHER -> FALSE

ResultOf(envelope) == Get(envelope, W("result"))
Written(k) == lastWrite[Index[k]]

\* C10 as claimed: for every indexed key, once write_cache has returned
\* for an envelope with a dict result, get_cached_result returns a value
\* equal to that result (whatever the envelope's query_norm), until the next
\* write to the file.
C10_RoundTripAnyDict ==
    /\ \A k \in DOMAIN Index :
          (Written(k) # PyNone /\ ResultOf(Written(k)).t = "dict") =>
              get_cached_result(k, Index, files) = ResultOf(Written(k))
    /\ (lastRead # <<>> /\ lastRead.expected # PyNone
            /\ ResultOf(lastRead.expected).t = "dict") =>
          lastRead.result = ResultOf(lastRead.expected)

\* C10 amended: the same for every envelope whose result is a dict that
\* JSON represents exactly (str keys throughout; None, str, int, lists).
C10_RoundTripJsonDict ==
    /\ \A k \in DOMAIN Index :
          (Written(k) # PyNone /\ ResultOf(Written(k)).t = "dict"
                /\ JsonNative(ResultOf(Written(k)))) =>
              get_cached_result(k, Index, files) = ResultOf(Written(k))
    /\ (lastRead # <<>> /\ lastRead.expected # PyNone
            /\ ResultOf(lastRead.expected).t = "dict"
            /\ JsonNative(ResultOf(lastRead.expected))) =>
          lastRead.result = ResultOf(lastRead.expected)

\* a read through a key that differs from the stored query_norm, of a
\* non-empty result
C10_Witness ==
    /\ lastRead # <<>> /\ lastRead.expected # PyNone
    /\ Get(lastRead.expected, W("query_norm")) # PyStr(lastRead.key)
    /\ JsonNative(ResultOf(lastRead.expected))
    /\ ResultOf(lastRead.expected).t = "dict" /\ Truthy(ResultOf(lastRead.expected))
    /\ lastRead.result = ResultOf(lastRead.expected)

\* the content is JSON whose top-level value is an object
IsEnvelopeObject(file) == file.kind = "json" /\ file.doc.j = "obj"

\* C11: get_cached_result never raises and never changes the cache
\* directory; it returns None when the key is not in the index, when the
\* backing file does not exist, and when the content does not parse or is
\* not an envelope object.
C11_ReadNeverRaises ==
    /\ [](lastRead # <<>> =>
            /\ lastRead.raised = "none"
            /\ ~IsEnvelopeObject(lastRead.seen) => lastRead.result = PyNone)
    /\ [][lastRead' # lastRead => files' = files]_vars

\* a read of a file that holds JSON which is not an object
C11_Witness ==
    /\ lastRead # <<>> /\ lastRead.seen.kind = "json" /\ lastRead.seen.doc.j = "arr"
    /\ lastRead.result = PyNone /\ lastRead.raised = "none"

\* C12: write_cache rejects with an error every envelope that carries a
\* query_norm (of any value, the empty canonical key included) together with
\* a result that is not a dict: no such call returns, and such a call
\* creates or modifies neither the destination file nor its temp file.
C12_RejectsNonDictResult ==
    /\ [](\A f \in CacheFiles :
            lastWrite[f] # PyNone => ResultOf(lastWrite[f]).t = "dict")
    /\ [][\A f \in CacheFiles : \A n \in SampleNorms : \A r \in SampleResults :
            (WriteCache(f, n, r) /\ r.t # "dict") => files' = files]_vars

(***************************************************************************)
(* Two write_cache calls for the same filename, interleaved step by step   *)
(* (data/cache_runtime.py lines 141-163).  Both calls compute the same     *)
(* temp path; an open file descriptor refers to an inode, not to a path.   *)
(***************************************************************************)
Writers == {1, 2}
\* the largest number of write(2) calls one json.dump takes
MaxChunks == 2
\* the i-th chunk of the envelope of call w
Chunk(w, i) == <<w, i>>
EnvelopeText(w, n) == [i \in 1..n |-> Chunk(w, i)]
\* a destination file left by an earlier, completed write
OldText == <<<<0, 1>>>>
\* a sparse region left by a write past the end of a truncated file
Hole == <<0, 0>>

\* json.load accepts exactly one whole document
Parses(text) ==
    \/ text = OldText
    \/ \E w \in Writers : \E n \in 1..MaxChunks : text = EnvelopeText(w, n)

InitRace ==
    /\ wpc = [w \in Writers |-> "open"]
    /\ wlen \in [Writers -> 1..MaxChunks]
    /\ \E old \in {0, 1} : dentry = [path \in {"dest", "tmp"} |-> IF path = "dest" THEN old ELSE 0]
    /\ inodes = <<OldText>>
    /\ wfd = [w \in Writers |-> 0]
    /\ woff = [w \in Writers |-> 0]
    /\ wraised = [w \in Writers |-> "none"]
    /\ IdlePipeline /\ IdleCanon /\ IdleCache /\ IdleManifest /\ IdlePrewarm /\ IdleExec /\ IdleExclusions /\ IdleRest

\* open(tmp, "w") (line 154): O_CREAT | O_TRUNC on the shared temp path
OpenTmp(w) ==
    /\ wpc[w] = "open"
    /\ IF dentry["tmp"] = 0
       THEN /\ inodes' = Append(inodes, <<>>)
            /\ dentry' = [dentry EXCEPT !["tmp"] = Len(inodes) + 1]
            /\ wfd' = [wfd EXCEPT ![w] = Len(inodes) + 1]
       ELSE /\ inodes' = [inodes EXCEPT ![dentry["tmp"]] = <<>>]
            /\ wfd' = [wfd EXCEPT ![w] = dentry["tmp"]]
            /\ UNCHANGED dentry
    /\ woff' = [woff EXCEPT ![w] = 0]
    /\ wpc' = [wpc EXCEPT ![w] = "dump"]
    /\ UNCHANGED <<wlen, wraised, pvars, qvars, fvars, mvars, warmvars, evars, xvars, restvars>>

\* the text after writing chunk c at offset off (in chunks)
WriteAt(text, off, c) ==
    IF off < Len(text) THEN [text EXCEPT ![off + 1] = c]
    ELSE text \o [i \in 1..(off - Len(text)) |-> Hole] \o <<c>>

\* json.dump and the close of the `with` block (lines 154-155): one write(2)
\* of the next chunk through the descriptor
DumpChunk(w) ==
    /\ wpc[w] = "dump"
    /\ inodes' = [inodes EXCEPT ![wfd[w]] = WriteAt(@, woff[w], Chunk(w, woff[w] + 1))]
    /\ woff' = [woff EXCEPT ![w] = @ + 1]
    /\ wpc' = [wpc EXCEPT ![w] = IF woff[w] + 1 = wlen[w] THEN "replace" ELSE "dump"]
    /\ UNCHANGED <<wlen, dentry, wfd, wraised, pvars, qvars, fvars, mvars, warmvars, evars, xvars, restvars>>

\* os.replace(tmp, path) (line 157): FileNotFoundError when tmp has no entry
Replace(w) ==
    /\ wpc[w] = "replace"
    /\ IF dentry["tmp"] = 0
       THEN /\ wraised' = [wraised EXCEPT ![w] = "FileNotFoundError"]
            /\ wpc' = [wpc EXCEPT ![w] = "done"]
            /\ UNCHANGED dentry
       ELSE /\ dentry' = [dentry EXCEPT !["dest"] = dentry["tmp"], !["tmp"] = 0]
            /\ wpc' = [wpc EXCEPT ![w] = "reread"]
            /\ UNCHANGED wraised
    /\ UNCHANGED <<wlen, inodes, wfd, woff, pvars, qvars, fvars, mvars, warmvars, evars, xvars, restvars>>

\* the re-read of the destination (lines 160-161) and the return
Reread(w) ==
    /\ wpc[w] = "reread"
    /\ wraised' = [wraised EXCEPT ![w] = IF Parses(inodes[dentry["dest"]]) THEN "none"
                                          ELSE "JSONDecodeError"]
    /\ wpc' = [wpc EXCEPT ![w] = "done"]
    /\ UNCHANGED <<wlen, dentry, inodes, wfd, woff, pvars, qvars, fvars, mvars, warmvars, evars, xvars, restvars>>

NextRace ==
    \/ \E w \in Writers : OpenTmp(w)
    \/ \E w \in Writers : DumpChunk(w)
    \/ \E w \in Writers : Replace(w)
    \/ \E w \in Writers : Reread(w)

SpecRace == InitRace /\ [][NextRace]_vars

BothDone == \A w \in Writers : wpc[w] = "done"
DestText == IF dentry["dest"] = 0 THEN <<>> ELSE inodes[dentry["dest"]]

\* C13: when two write_cache calls for the same filename run concurrently,
\* under every interleaving of their steps both calls complete without error
\* and the destination afterwards holds exactly one of the two envelopes,
\* complete and parseable.
C13_LastWriterWins ==
    BothDone =>
        /\ \A w \in Writers : wraised[w] = "none"
        /\ \E w \in Writers : DestText = EnvelopeText(w, wlen[w])

(***************************************************************************)
(* The manifest reader (data/cache_runtime.py lines 32-105).  A filename   *)
(* and a query are sequences of characters; a CSV field is a str, or None  *)
(* where the row is too short.                                             *)
(***************************************************************************)
MaxFilenameLength == 80
DotJson == <<".", "j", "s", "o", "n">>
\* the characters of [A-Za-z0-9._-] in the alphabet of the model
FilenameChars ==
    {"a", "b", "f", "j", "s", "o", "n", "t", "x", "A", "B", "1", "2", "3", ".", "_", "-"}

EndsWith(text, suffix) ==
    /\ Len(text) >= Len(suffix)
    /\ SubSeq(text, Len(text) - Len(suffix) + 1, Len(text)) = suffix
StartsWith(text, prefix) ==
    Len(text) >= Len(prefix) /\ SubSeq(text, 1, Len(prefix)) = prefix
Contains(text, part) ==
    \E i \in 1..(Len(text) - Len(part) + 1) : SubSeq(text, i, i + Len(part) - 1) = part

\* re.match(r"^[A-Za-z0-9._-]+\.json$", name) on a name without line breaks
MatchesPattern(name) ==
    /\ EndsWith(name, DotJson)
    /\ Len(name) > Len(DotJson)
    /\ \A i \in 1..(Len(name) - Len(DotJson)) : name[i] \in FilenameChars

\* mutant: without the test for ".."
validate_filename_no_dotdot(name) ==
    IF Len(name) > MaxFilenameLength THEN FALSE
    ELSE IF ~EndsWith(name, DotJson) THEN FALSE
    ELSE IF StartsWith(name, <<".">>) THEN FALSE
    ELSE IF ~MatchesPattern(name) THEN FALSE
    ELSE TRUE

validate_filename(name) ==
    IF Len(name) > MaxFilenameLength THEN FALSE
    ELSE IF ~EndsWith(name, DotJson) THEN FALSE
    ELSE IF StartsWith(name, <<".">>) \/ Contains(name, <<".", ".">>) THEN FALSE
    ELSE IF ~MatchesPattern(name) THEN FALSE
    ELSE TRUE

QueryRow(line_no, query_raw, query_norm, filename) ==
    [line_no |-> line_no, query_raw |-> query_raw, query_norm |-> query_norm,
     filename |-> filename]

\* (row.get(...) or "")
OrEmpty(field) == IF Truthy(field) THEN field.s ELSE <<>>

\* mutant: data rows numbered from 1
RowNumberFromOne(k) == k

\* enumerate(reader, start=2): the number of the k-th data row
RowNumber(k) == k + 1

\* the checks of one row, in the order of the code; "none" when it passes
RowError(raw_query, filename, key, keys, names) ==
    IF raw_query = <<>> \/ filename = <<>> THEN "empty query or file"
    ELSE IF ~validate_filename(filename) THEN "invalid filename"
    ELSE IF key \in DOMAIN keys THEN "duplicate canonical key"
    ELSE IF filename \in DOMAIN names THEN "duplicate file name"
    ELSE "none"

\* one iteration of the loop of read_rows (lines 68-92)
ReadRow ==
    /\ mpc = "read_rows" /\ rline < Len(csv)
    /\ LET i == RowNumber(rline + 1)
           row == csv[rline + 1]
           raw_query == Strip(OrEmpty(row.query))
           filename == Strip(OrEmpty(row.file))
           key == canonicalize_query(raw_query)
           error == RowError(raw_query, filename, key, seen_keys, seen_files)
       IN  /\ rline' = rline + 1
           /\ IF error # "none"
              THEN /\ mraised' = [type |-> "ValueError", row |-> i, message |-> error]
                   /\ mpc' = "raised"
                   /\ UNCHANGED <<rowlist, seen_keys, seen_files>>
              ELSE /\ seen_keys' = seen_keys @@ (key :> i)
                   /\ seen_files' = seen_files @@ (filename :> i)
                   /\ rowlist' = Append(rowlist, QueryRow(i, raw_query, key, filename))
                   /\ UNCHANGED <<mraised, mpc>>
    /\ UNCHANGED <<csv, returned_rows, loaded_index, pvars, qvars, fvars, rvars, warmvars, evars, xvars, restvars>>

\* {r.query_norm: r.filename for r in rows}: a later row replaces an earlier
\* one with the same key
IndexOf(rs) ==
    [k \in {rs[j].query_norm : j \in DOMAIN rs} |->
        rs[CHOOSE j \in DOMAIN rs :
              /\ rs[j].query_norm = k
              /\ \A j2 \in DOMAIN rs : rs[j2].query_norm = k => j2 <= j].filename]

\* the return of read_rows (line 94) into load_index, and load_index to its
\* end (lines 102-105)
LoadIndex ==
    /\ mpc = "read_rows" /\ rline = Len(csv)
    /\ returned_rows' = PyList(rowlist)
    /\ loaded_index' = PyDict(IndexOf(rowlist))
    /\ mpc' = "done"
    /\ UNCHANGED <<csv, rline, rowlist, seen_keys, seen_files, mraised,
                   pvars, qvars, fvars, rvars, warmvars, evars, xvars, restvars>>

\* how many data rows the sampled files have at most
MaxRows == 3
F1 == <<"f", "1">> \o DotJson
F2 == <<"f", "2">> \o DotJson
F3 == <<"f", "3">> \o DotJson
QueryAB == <<"a", " ", "b">>
CsvRow(query, file) == [query |-> query, file |-> file]
LongName(n) == [i \in 1..(n - Len(DotJson)) |-> "a"] \o DotJson

ManifestRowSamples ==
    {CsvRow(PyStr(q), PyStr(f)) :
        q \in {QueryAB, <<"A", " ", "b", "!">>, <<"!">>},
        f \in {F1, <<" ">> \o F2 \o <<" ">>}}
    \cup {CsvRow(PyStr(<<"b">>), PyStr(F2)),
          CsvRow(PyStr(<<"b">>), PyStr(LongName(MaxFilenameLength))),
          CsvRow(PyStr(<<>>), PyStr(F1)),
          CsvRow(PyStr(<<" ">>), PyStr(F3)),
          CsvRow(PyNone, PyStr(F3)),
          CsvRow(PyStr(<<"b">>), PyStr(<<>>)),
          CsvRow(PyStr(<<"b">>), PyNone),
          CsvRow(PyStr(<<"b">>), PyStr(<<".", ".", "/">> \o F3)),
          CsvRow(PyStr(<<"b">>), PyStr(<<".">> \o F3)),
          CsvRow(PyStr(<<"b">>), PyStr(<<"f", "3", ".", "t", "x", "t">>)),
          CsvRow(PyStr(<<"b">>), PyStr(<<"f", ".", ".", "3">> \o DotJson)),
          CsvRow(PyStr(<<"b">>), PyStr(<<"f", " ", "3">> \o DotJson)),
          CsvRow(PyStr(<<"b">>), PyStr(LongName(MaxFilenameLength + 1)))}

SeqsUpTo(S, n) == UNION {[1..k -> S] : k \in 0..n}

InitManifest ==
    /\ csv \in SeqsUpTo(ManifestRowSamples, MaxRows)
    /\ mpc = "read_rows" /\ rline = 0 /\ rowlist = <<>>
    /\ seen_keys = <<>> /\ seen_files = <<>> /\ mraised = <<>>
    /\ returned_rows = PyNone /\ loaded_index = PyNone
    /\ IdlePipeline /\ IdleCanon /\ IdleCache /\ IdleRace /\ IdlePrewarm /\ IdleExec /\ IdleExclusions /\ IdleRest

NextManifest == ReadRow \/ LoadIndex

SpecManifest == InitManifest /\ [][NextManifest]_vars

\* the filename rules: at most 80 characters, .json ending, no leading dot,
\* no '..', allow-listed characters only
FilenameRules(name) ==
    /\ Len(name) <= MaxFilenameLength
    /\ EndsWith(name, DotJson)
    /\ name[1] # "."
    /\ \A i \in 1..(Len(name) - 1) : ~(name[i] = "." /\ name[i + 1] = ".")
    /\ \A i \in DOMAIN name : name[i] \in FilenameChars

\* C14: whenever read_rows / load_index returns, the canonical keys of the
\* rows are pairwise distinct, the filenames are pairwise distinct, the index
\* has exactly one entry per row, and every filename satisfies the filename
\* rules, so that no index entry names a path outside the cache directory.
C14_ManifestWellFormed ==
    returned_rows # PyNone =>
        LET rs == returned_rows.l
        IN  /\ \A i, j \in DOMAIN rs :
                    i # j => /\ rs[i].query_norm # rs[j].query_norm
                             /\ rs[i].filename # rs[j].filename
            /\ \A i \in DOMAIN rs : FilenameRules(rs[i].filename)
            /\ loaded_index # PyNone =>
                    /\ Cardinality(DOMAIN loaded_index.d) = Len(rs)
                    /\ \A i \in DOMAIN rs :
                            /\ rs[i].query_norm \in DOMAIN loaded_index.d
                            /\ loaded_index.d[rs[i].query_norm] = rs[i].filename
                    /\ \A k \in DOMAIN loaded_index.d : FilenameRules(loaded_index.d[k])

\* load_index returned an index of several rows, one of them under the empty
\* canonical key and one with a filename that was stripped of spaces
C14_Witness ==
    /\ loaded_index # PyNone /\ Cardinality(DOMAIN loaded_index.d) > 1
    /\ <<>> \in DOMAIN loaded_index.d
    /\ \E i \in DOMAIN csv : csv[i].file = PyStr(<<" ">> \o F2 \o <<" ">>)

\* row j of the file (1 is the first data row) violates a rule: empty query
\* or filename, invalid filename, canonical key or filename of an earlier row
Violates(j) ==
    LET q(r) == Strip(OrEmpty(csv[r].query))
        f(r) == Strip(OrEmpty(csv[r].file))
    IN  \/ q(j) = <<>> \/ f(j) = <<>>
        \/ ~FilenameRules(f(j))
        \/ \E e \in 1..(j - 1) : canonicalize_query(q(e)) = canonicalize_query(q(j))
        \/ \E e \in 1..(j - 1) : f(e) = f(j)

ReadRowsOver == mraised # <<>> \/ returned_rows # PyNone

\* C15: read_rows fails the whole load if and only if some row has an empty
\* query or filename, an invalid filename, a canonical key already seen in an
\* earlier row or a filename already seen in an earlier row; the error names
\* the row number (data rows numbered from 2) of the first such row in file
\* order, and no partial list of rows is returned.
C15_FailsAtFirstViolation ==
    ReadRowsOver =>
        /\ mraised # <<>> <=> \E j \in DOMAIN csv : Violates(j)
        /\ mraised # <<>> =>
                /\ mraised.type = "ValueError"
                /\ mraised.row = 1 + Min({j \in DOMAIN csv : Violates(j)})
                /\ returned_rows = PyNone /\ loaded_index = PyNone

\* the load failed at the last row, a duplicate of the first row's key, after
\* earlier rows had passed
C15_Witness ==
    /\ mraised # <<>> /\ mraised.row = Len(csv) + 1 /\ Len(csv) > 2
    /\ mraised.message = "duplicate canonical key"
    /\ Len(rowlist) = Len(csv) - 1

(***************************************************************************)
(* prewarm_from_csv (data/cache_runtime.py lines 196-245) over the cache   *)
(* directory `files`; fetch_results is the caller's function and returns   *)
(* or raises as it chooses.                                                *)
(***************************************************************************)
RECURSIVE PathOf(_)
\* CACHE_DIR / r.filename: the characters of the filename as one path name
PathOf(name) == IF name = <<>> THEN "" ELSE Head(name) \o PathOf(Tail(name))

PrewarmFiles == {PathOf(F1), PathOf(F2), PathOf(F3)}
PrewarmPaths == PrewarmFiles \cup {TmpOf(f) : f \in PrewarmFiles}

PrewarmRowSamples ==
    {CsvRow(PyStr(QueryAB), PyStr(F1)),
     CsvRow(PyStr(<<"b">>), PyStr(F2)),
     CsvRow(PyStr(<<"!">>), PyStr(F3)),
     CsvRow(PyStr(<<"A", " ", "b", "!">>), PyStr(F3))}

\* the values of the parameter limit: None, a negative number, zero, two
Limits == {PyNone, PyInt(-1), PyInt(0), PyInt(2)}

\* what one call of fetch_results does: return a dict, return something that
\* is no dict, return a dict json.dump cannot write, or raise
FetchOutcomes ==
    {[raised |-> "none", value |-> PyDict(Vestidos :> PyList(<<ProductRow>>))],
     [raised |-> "none", value |-> PyList(<<ProductRow>>)],
     [raised |-> "none", value |-> PyDict(Sapatos :> PySet)],
     [raised |-> "RuntimeError", value |-> PyNone]}

InitPrewarm ==
    /\ csv \in SeqsUpTo(PrewarmRowSamples, MaxRows)
    /\ mpc = "read_rows" /\ rline = 0 /\ rowlist = <<>>
    /\ seen_keys = <<>> /\ seen_files = <<>> /\ mraised = <<>>
    /\ returned_rows = PyNone /\ loaded_index = PyNone
    /\ \E c1 \in {Absent, Doc(JArr(<<>>))} : \E c2 \in {Absent, Garbage} :
            files = [p \in PrewarmPaths |->
                        IF p = PathOf(F1) THEN c1 ELSE IF p = PathOf(F2) THEN c2 ELSE Absent]
    /\ files0 = files
    /\ lastWrite = <<>> /\ lastRead = <<>>
    /\ overwrite \in BOOLEAN /\ row_limit \in Limits
    /\ total = 0 /\ nwritten = 0 /\ skipped = 0
    /\ plog = <<>> /\ presult = PyNone
    /\ IdlePipeline /\ IdleCanon /\ IdleRace /\ IdleExec /\ IdleExclusions /\ IdleRest

\* the return of read_rows into prewarm_from_csv and the lines up to the
\* loop (lines 212-217)
PrewarmStart ==
    /\ mpc = "read_rows" /\ rline = Len(csv)
    /\ returned_rows' = PyList(rowlist)
    /\ total' = 0 /\ nwritten' = 0 /\ skipped' = 0
    /\ mpc' = "loop"
    /\ UNCHANGED <<csv, rline, rowlist, seen_keys, seen_files, mraised, loaded_index,
                   overwrite, row_limit, plog, files0, presult,
                   pvars, qvars, fvars, rvars, evars, xvars, restvars>>

\* `limit is not None and total >= limit` (line 220)
LimitReached == row_limit.t # "none" /\ total >= row_limit.n

\* mutant: an existing file is skipped whatever overwrite says
SkipsExisting(exists, ow) == exists

\* `path.exists() and not overwrite` (line 225)
Skips(exists, ow) == exists /\ ~ow

\* mutant: the exception of a row is swallowed and the loop goes on
Isolated(exc) == FALSE

\* lines 229-238 stand in no try block: an exception leaves the call
Propagates(exc) == exc # "none"

LogEntry(k, action, fetches, result, exc) ==
    [row |-> k, action |-> action, fetches |-> fetches, result |-> result, raised |-> exc]

\* one iteration of the loop (lines 219-239)
PrewarmRow ==
    /\ mpc = "loop" /\ total < Len(returned_rows.l) /\ ~LimitReached
    /\ LET k == total + 1
           r == returned_rows.l[k]
           path == PathOf(r.filename)
       IN  /\ total' = total + 1
           /\ IF Skips(files[path].kind # "absent", overwrite)
              THEN /\ skipped' = skipped + 1
                   /\ plog' = Append(plog, LogEntry(k, "skipped", 0, PyNone, "none"))
                   /\ UNCHANGED <<files, nwritten, mpc, mraised>>
              ELSE \E out \in FetchOutcomes :
                   LET envelope == build_envelope(r.query_raw, r.query_norm, out.value, path)
                       done == IF out.raised # "none" THEN [dir |-> files, raised |-> out.raised]
                               ELSE write_cache(path, envelope, files)
                       failed == done.raised # "none"
                   IN  /\ files' = done.dir
                       /\ nwritten' = IF failed THEN nwritten ELSE nwritten + 1
                       /\ plog' = Append(plog, LogEntry(k, IF failed THEN "failed" ELSE "written",
                                                        1, out.value, done.raised))
                       /\ IF failed /\ Propagates(done.raised)
                          THEN /\ mpc' = "raised"
                               /\ mraised' = [type |-> done.raised, row |-> r.line_no,
                                              message |-> "prewarm"]
                          ELSE UNCHANGED <<mpc, mraised>>
                       /\ UNCHANGED skipped
    /\ UNCHANGED <<csv, rline, rowlist, seen_keys, seen_files, returned_rows, loaded_index,
                   overwrite, row_limit, files0, presult, lastWrite, lastRead,
                   pvars, qvars, rvars, evars, xvars, restvars>>

\* the end of the loop and the return (lines 219-221, 241-245)
PrewarmReturn ==
    /\ mpc = "loop" /\ (total >= Len(returned_rows.l) \/ LimitReached)
    /\ presult' = PyList(<<total, nwritten, skipped>>)
    /\ mpc' = "done"
    /\ UNCHANGED <<csv, rline, rowlist, seen_keys, seen_files, mraised, returned_rows,
                   loaded_index, overwrite, row_limit, total, nwritten, skipped, plog, files0,
                   pvars, qvars, fvars, rvars, evars, xvars, restvars>>

NextPrewarm == ReadRow \/ PrewarmStart \/ PrewarmRow \/ PrewarmReturn

SpecPrewarm == InitPrewarm /\ [][NextPrewarm]_vars

NumRows == Len(returned_rows.l)
RowPath(k) == PathOf(returned_rows.l[k].filename)
CountLog(action) == Cardinality({k \in DOMAIN plog : plog[k].action = action})
Smaller(a, b) == IF a <= b THEN a ELSE b

\* what C16 says of a normal return, apart from the value of total
PrewarmAccounts ==
    LET t == presult.l[1]
        w == presult.l[2]
        sk == presult.l[3]
    IN  /\ t = w + sk
        /\ Len(plog) = t /\ w = CountLog("written") /\ sk = CountLog("skipped")
        /\ \A k \in 1..t :
                /\ plog[k].row = k
                /\ plog[k].action = "skipped" <=>
                        (files0[RowPath(k)].kind # "absent" /\ ~overwrite)
                /\ plog[k].action = "written" => plog[k].fetches = 1
                /\ plog[k].action = "skipped" => plog[k].fetches = 0
        /\ ~overwrite =>
                \A path \in DOMAIN files0 :
                    files0[path].kind # "absent" => files[path] = files0[path]

\* C16 as claimed: on a normal return total = written + skipped and total =
\* min(limit, number of rows) when a limit is given (the number of rows
\* otherwise); a row is skipped iff its file exists and overwrite is false;
\* fetch_fn is called once per written row and never for a skipped row; with
\* overwrite false no existing cache file is modified.
C16_PrewarmCounts ==
    presult # PyNone =>
        /\ PrewarmAccounts
        /\ presult.l[1] = IF row_limit.t = "none" THEN NumRows
                          ELSE Smaller(row_limit.n, NumRows)

\* C16 amended: the same, with total = min(limit, number of rows) for a limit
\* that is not negative and total = 0 for a negative limit.
C16_PrewarmCountsNonNegativeLimit ==
    presult # PyNone =>
        /\ PrewarmAccounts
        /\ presult.l[1] = IF row_limit.t = "none" THEN NumRows
                          ELSE IF row_limit.n < 0 THEN 0
                          ELSE Smaller(row_limit.n, NumRows)

\* a normal return under a limit smaller than the number of rows, with one
\* row skipped and one written
C16_Witness ==
    /\ presult # PyNone /\ row_limit.t = "int" /\ row_limit.n > 0 /\ row_limit.n < NumRows
    /\ presult.l = <<row_limit.n, 1, 1>>

EnvelopeOfRow(k) ==
    build_envelope(returned_rows.l[k].query_raw, returned_rows.l[k].query_norm,
                   plog[k].result, RowPath(k))

\* C17: an exception raised by fetch_fn or by the cache write for one row
\* propagates to the caller; the files written for earlier rows stay written,
\* the failing row's destination is not replaced by a fetched result, and no
\* later row is fetched or written.
C17_RowFailurePropagates ==
    \A k \in DOMAIN plog :
        plog[k].raised # "none" =>
            /\ mpc = "raised" /\ mraised # <<>> /\ mraised.type = plog[k].raised
            /\ presult = PyNone
            /\ \A e \in 1..(k - 1) :
                    plog[e].action = "written" =>
                        files[RowPath(e)] = Doc(JsonDump(EnvelopeOfRow(e)))
            /\ files[RowPath(k)] = files0[RowPath(k)]
            /\ Len(plog) = k
            /\ \A l \in (k + 1)..NumRows : files[RowPath(l)] = files0[RowPath(l)]

\* the write of the second row failed after the first row was written, with
\* a third row left
C17_Witness ==
    /\ Len(plog) = 2 /\ plog[1].action = "written"
    /\ plog[2].raised \in {"ValueError", "TypeError"}
    /\ mpc = "raised" /\ returned_rows # PyNone /\ NumRows > 2

(***************************************************************************)
(* The Prompt Executor (utils/execute_prompt.py lines 27-136) and the      *)
(* model-call boundary (utils/llm_utils.py lines 50-121).  The content of  *)
(* a response is a sequence of lines, a line a sequence of tokens; `json`  *)
(* tells what json.loads and the repair pass make of the text between the  *)
(* first "{" and the last "}"; "<fence>" is a Markdown code fence.         *)
(***************************************************************************)
\* execute_prompt.py line 18
MODEL == "deepseek-v3"
\* the keys of llm_utils.MODELS
MODELS == {"gpt-5-mini", "gpt-4o-mini", "deepseek-v3", "gemini-2.5-flash"}

\* the exceptions of the openai library that are APIError or a subclass
ApiErrors == {"AuthenticationError", "RateLimitError", "APITimeoutError", "APIError"}
\* a timeout and a rate limit
TransientErrors == {"RateLimitError", "APITimeoutError"}

ParsedMapping == PyDict(W("att_1") :> W("Cor"))
Content(lines, json) == [lines |-> lines, json |-> json]
ContentSamples ==
    {Content(<<<<"{", "att_1", ":", "Cor", "}">>>>, "strict"),
     Content(<<<<"{", "att_1", ":", "Cor", ",", "att_2", ":", "Linha", "}">>>>, "strict"),
     Content(<<<<"<fence>json">>, <<"{", "att_1", ":", "Cor", ",", "att_2", ":", "Linha", "}">>,
               <<"<fence>">>>>, "strict"),
     Content(<<<<"{", "att_1", ":">>, <<"Cor", "}">>>>, "repairable"),
     Content(<<<<"{", "att_1", ":">>, <<"Cor">>>>, "no braces"),
     Content(<<<<"{", "att_1", "}">>>>, "broken"),
     Content(<<<<"Cor", ";", "Linha">>>>, "no braces")}

\* a response object: how many choices it has, whether choices[0] has a
\* message, and message.content (None, or a text)
Response(choices, message, content) ==
    [t |-> "response", choices |-> choices, message |-> message, content |-> content]
ResponseSamples ==
    {Response(0, FALSE, PyNone), Response(1, FALSE, PyNone), Response(1, TRUE, PyNone)}
    \cup {Response(1, TRUE, c) : c \in ContentSamples}

\* lines 31-33: the first line holds ";" or "," or "csv"
IsCsvShaped(content) ==
    \E i \in DOMAIN content.lines[1] : content.lines[1][i] \in {";", ",", "csv"}

RECURSIVE Flatten(_)
Flatten(lines) == IF lines = <<>> THEN <<>> ELSE Head(lines) \o Flatten(Tail(lines))

\* the try block of parse_api_response (lines 29-58): the value it returns,
\* or the exception it ends with
TryParse(response) ==
    IF response.choices = 0 THEN [exc |-> "IndexError", value |-> PyNone]
    ELSE IF ~response.message THEN [exc |-> "AttributeError: message", value |-> PyNone]
    ELSE IF response.content = PyNone THEN [exc |-> "AttributeError", value |-> PyNone]
    ELSE IF IsCsvShaped(response.content)
         THEN [exc |-> "none", value |-> PyStr(Flatten(response.content.lines))]
    ELSE IF response.content.json \in {"strict", "repairable"}
         THEN [exc |-> "none", value |-> ParsedMapping]
    ELSE IF response.content.json = "no braces"
         THEN [exc |-> "ValueError", value |-> PyNone]
    ELSE [exc |-> "SyntaxError", value |-> PyNone]

\* parse_api_response with its handlers (lines 60-71): the value returned and
\* the exception that leaves the function
parse_api_response(response) ==
    LET body == TryParse(response)
    IN  CASE body.exc = "none" -> [raised |-> "none", value |-> body.value]
          [] body.exc \in {"SyntaxError", "ValueError"} -> [raised |-> "none", value |-> PyNone]
          [] body.exc = "AttributeError: message" -> [raised |-> "ValueError", value |-> PyNone]
          [] body.exc = "AttributeError" -> [raised |-> "AttributeError", value |-> PyNone]
          [] OTHER -> [raised |-> "none", value |-> PyNone]

TemplateSources == {"template", "path", "missing file", "neither"}
InitExec ==
    /\ eargs \in [api_model : {"", MODEL, "gpt-4o-mini", "gpt-4o"},
                   template : TemplateSources,
                   row_has_keys : BOOLEAN,
                   api_key_set : BOOLEAN]
    /\ epc = "execute_prompt" /\ retry = FALSE /\ attempts = <<>>
    /\ model_result = NotCalled /\ eresult = NotCalled /\ eraised = "none"
    /\ efailure = "none"
    /\ IdlePipeline /\ IdleCanon /\ IdleCache /\ IdleRace /\ IdleManifest /\ IdlePrewarm /\ IdleExclusions /\ IdleRest

\* mutant: the handler of execute_prompt catches ValueError only
ExecHandlesValueError(exc) == exc = "ValueError"

\* `except Exception` of execute_prompt (lines 134-136)
ExecHandles(exc) == exc # "none"

\* an exception exc met inside the try block of execute_prompt
ExecFails(exc, kind) ==
    /\ efailure' = kind
    /\ epc' = "done"
    /\ IF ExecHandles(exc)
       THEN eresult' = PyNone /\ UNCHANGED eraised
       ELSE eraised' = exc /\ UNCHANGED eresult

OtherFrames == <<pvars, qvars, fvars, rvars, mvars, warmvars, xvars, restvars>>

\* execute_prompt up to the model call (lines 106-122)
ExecPrepare ==
    /\ epc = "execute_prompt"
    /\ IF eargs.template = "neither" THEN ExecFails("ValueError", "no template")
       ELSE IF eargs.template = "missing file"
       THEN ExecFails("FileNotFoundError", "missing template")
       ELSE IF ~eargs.row_has_keys THEN ExecFails("KeyError", "formatting")
       ELSE epc' = "call_model" /\ UNCHANGED <<eresult, eraised, efailure>>
    /\ UNCHANGED <<eargs, retry, attempts, model_result, OtherFrames>>

\* `if not api_model: api_model = MODEL` (lines 106-107)
ApiModel == IF eargs.api_model = "" THEN MODEL ELSE eargs.api_model

\* call_model before its try block (lines 59-73)
CallModelEnter ==
    /\ epc = "call_model"
    /\ IF ApiModel \notin MODELS \/ ~eargs.api_key_set
       THEN ExecFails("ValueError", "model call")
       ELSE epc' = "request" /\ UNCHANGED <<eresult, eraised, efailure>>
    /\ UNCHANGED <<eargs, retry, attempts, model_result, OtherFrames>>

\* what one pass through the try block of call_model meets: a response, an
\* error of the openai library, or another exception
RequestOutcomes == ResponseSamples \cup {[t |-> e] : e \in ApiErrors \cup {"Exception"}}

\* the handlers of call_model (lines 107-121): only the last one, for an
\* exception that is no APIError, retries
Retried(exc) == exc \notin ApiErrors

\* one pass through the try block of call_model and its handlers (lines
\* 75-121); a retry re-enters call_model with retry=True
CallModelRequest(out) ==
    /\ epc = "request"
    /\ attempts' = Append(attempts, out.t)
    /\ IF out.t = "response"
       THEN /\ model_result' = out
            /\ epc' = "parse"
            /\ UNCHANGED retry
       ELSE IF Retried(out.t) /\ ~retry
       THEN /\ retry' = TRUE
            /\ UNCHANGED <<model_result, epc>>
       ELSE /\ model_result' = PyNone
            /\ epc' = "parse"
            /\ UNCHANGED retry
    /\ UNCHANGED <<eargs, eresult, eraised, efailure, OtherFrames>>

\* execute_prompt after the model call (lines 124-133)
ExecParse ==
    /\ epc = "parse"
    /\ IF model_result = PyNone
       THEN /\ eresult' = PyNone /\ efailure' = "model call" /\ epc' = "done"
            /\ UNCHANGED eraised
       ELSE LET parsed == parse_api_response(model_result)
            IN  IF parsed.raised # "none" THEN ExecFails(parsed.raised, "response shape")
                ELSE /\ eresult' = parsed.value
                     /\ efailure' = IF TryParse(model_result).exc = "none" THEN "none"
                                     ELSE IF TryParse(model_result).exc = "IndexError"
                                     THEN "response shape" ELSE "parse"
                     /\ epc' = "done"
                     /\ UNCHANGED eraised
    /\ UNCHANGED <<eargs, retry, attempts, model_result, OtherFrames>>

NextExec ==
    \/ ExecPrepare
    \/ CallModelEnter
    \/ \E out \in RequestOutcomes : CallModelRequest(out)
    \/ ExecParse

SpecExec == InitExec /\ [][NextExec]_vars

\* C18: execute_prompt never raises to its caller: a missing template, a
\* formatting failure on an unresolved placeholder, a failed model call, an
\* unexpected response shape and an unparseable response each yield None.
C18_ExecutorNeverRaises ==
    /\ eraised = "none"
    /\ (epc = "done" /\ efailure # "none") => eresult = PyNone

\* a finished call whose response had no content: parse_api_response raised
\* AttributeError and execute_prompt returned None
C18_Witness ==
    /\ epc = "done" /\ eresult = PyNone
    /\ efailure = "response shape" /\ model_result # PyNone
    /\ parse_api_response(model_result).raised = "AttributeError"

CallModelReturned == model_result # NotCalled

\* C19: when a model call fails with a transient error (a timeout or a rate
\* limit), call_model retries the call exactly once and returns null only if
\* the retry fails as well; no invocation makes more than two attempts.
C19_TransientRetriedOnce ==
    /\ Len(attempts) <= 2
    /\ (CallModelReturned /\ attempts[1] \in TransientErrors) =>
            /\ Len(attempts) = 2
            /\ model_result = PyNone => attempts[2] # "response"

(***************************************************************************)
(* The exclusion rules of Step 4 applied to one result block               *)
(* (run_user_query.py lines 211-227), for every context the context call   *)
(* can report.                                                             *)
(***************************************************************************)
Formalities == {W("FORMAL"), W("INFORMAL"), W("formal"), PyNone}
Times == {W("DIA"), W("NOITE")}
Locations == {W("CAMPO"), W("CIDADE"), W("PRAIA")}
Activities == {W("FESTA"), W("ESPORTE"), W("LAZER"), PyStr(DiaADia)}
Climates == {W("Hot"), W("Cold"), W("Mild"), PyNone}
\* result_block["attribute"] as the model wrote it, and the attribute name
\* it stands for
AttributeSamples ==
    {[raw |-> <<"Material">>, name |-> "Material"],
     [raw |-> <<"Material", "|", "Tecido">>, name |-> "Material"],
     [raw |-> <<"Estrutura", "|", "Forma">>, name |-> "Estrutura"],
     [raw |-> <<"Superfície">>, name |-> "Superfície"],
     [raw |-> <<"Cor">>, name |-> "Cor"]}

InitExclusions ==
    /\ \E f \in Formalities : \E tm \in Times : \E l \in Locations : \E a \in Activities :
       \E c \in Climates :
            xcontext = PyDict([occasion |-> PyDict([formality |-> f, time |-> tm,
                                                    location |-> l, activity |-> a]),
                               weather |-> PyDict([climate |-> c])])
    /\ xattribute \in AttributeSamples
    /\ xexclusions = PyNone
    /\ IdlePipeline /\ IdleCanon /\ IdleCache /\ IdleRace /\ IdleManifest /\ IdlePrewarm
    /\ IdleExec /\ IdleRest

\* lines 211-227 for one result block: the context keys, the two table
\* lookups and the union under the normalized attribute name
ComputeExclusions ==
    /\ xexclusions = PyNone
    /\ xexclusions' = [t |-> "set",
                       s |-> Exclusions(xcontext, normalize_attribute_name(xattribute.raw))]
    /\ UNCHANGED <<xcontext, xattribute, pvars, qvars, fvars, rvars, mvars, warmvars, evars, restvars>>

NextExclusions == ComputeExclusions

SpecExclusions == InitExclusions /\ [][NextExclusions]_vars

OccasionTuple ==
    <<xcontext.d["occasion"].d["formality"], xcontext.d["occasion"].d["time"],
      xcontext.d["occasion"].d["location"], xcontext.d["occasion"].d["activity"]>>
Climate == xcontext.d["weather"].d["climate"]
\* value v stands in the entry of `table` for `key` under the attribute name
InEntry(table, key, name, v) ==
    \E e \in table : e.key = key /\ \E r \in e.rules : r.attr = <<name>> /\ v \in r.values
AllValueNames == {Couro, Jeans, Malha, Festivo, Plano, Pesado, Leve, Brilhante}

\* C20: for every occasion tuple and climate, the forbidden value names of
\* an attribute are the union of the occasion-table entry for the tuple and
\* the weather-table entry for the climate under the attribute's name before
\* '|'; an unmatched tuple or climate contributes nothing.  (FORMAL, DIA,
\* CAMPO, FESTA) forbids Couro, Jeans and 'Malha | Retilínea' for Material and
\* Brilhante for Superfície; climate Hot forbids 'Pesado | Estruturado' for
\* Estrutura.
C20_ExclusionsAreUnion ==
    xexclusions # PyNone =>
        /\ xexclusions.s =
                {v \in AllValueNames :
                    \/ InEntry(OCCASION_EXCLUSIONS, OccasionTuple, xattribute.name, v)
                    \/ InEntry(WEATHER_EXCLUSIONS, Climate, xattribute.name, v)}
        /\ (OccasionTuple = <<W("FORMAL"), W("DIA"), W("CAMPO"), W("FESTA")>>
                /\ xattribute.name = "Material") =>
                    {<<"Couro">>, <<"Jeans">>, <<"Malha", "|", "Retilínea">>} \subseteq xexclusions.s
        /\ (OccasionTuple = <<W("FORMAL"), W("DIA"), W("CAMPO"), W("FESTA")>>
                /\ xattribute.name = "Superfície") => <<"Brilhante">> \in xexclusions.s
        /\ (Climate = W("Hot") /\ xattribute.name = "Estrutura") =>
                <<"Pesado", "|", "Estruturado">> \in xexclusions.s
        /\ (OccasionTuple[1] \in {W("formal"), PyNone} /\ Climate \in {W("Mild"), PyNone}) =>
                xexclusions.s = {}

\* both tables contribute to the exclusions of a block named 'Estrutura | Forma'
C20_Witness ==
    /\ xexclusions # PyNone /\ xattribute.raw = <<"Estrutura", "|", "Forma">>
    /\ OccasionTuple = <<W("INFORMAL"), W("NOITE"), W("CIDADE"), W("ESPORTE")>>
    /\ Climate = W("Cold")
    /\ xexclusions.s = {Pesado, Leve}

(***************************************************************************)
(* Steps 4, 5 and 6 of process_user_query_streaming applied to one detail  *)
(* set: the exclusion filter (lines 221-252), the label list of Step 5     *)
(* (lines 257-265) and search_products_with_details (lines 80-146), for    *)
(* the blocks an attribute call can answer with.                           *)
(***************************************************************************)
\* a result block with the given values in value_1.., a value being
\* <<id, name, score>>
BlockOf(attribute, values) ==
    LET keys == {"attribute"}
                    \cup {ValueKey(i, f) : i \in 1..Len(values), f \in {"id", "name", "score"}}
    IN  PyDict([k \in keys |->
            IF k = "attribute" THEN attribute
            ELSE LET i == CHOOSE x \in 1..Len(values) :
                            \E f \in {"id", "name", "score"} : ValueKey(x, f) = k
                 IN  IF k = ValueKey(i, "id") THEN values[i][1]
                     ELSE IF k = ValueKey(i, "name") THEN values[i][2]
                     ELSE values[i][3]])

DetailBlockSamples ==
    {BlockOf(W("Material"), <<(<<PyInt(11), PyStr(Couro), PyInt(9)>>),
                              (<<PyInt(12), W("Algodão"), PyInt(8)>>),
                              (<<PyInt(13), PyStr(Jeans), PyInt(6)>>)>>),
     \* the same attribute and value id 11 once more, with another score
     BlockOf(PyStr(<<"Material", "|", "Tecido">>),
             <<(<<PyInt(11), PyStr(Couro), PyInt(8)>>),
               (<<PyInt(14), PyStr(Festivo), PyInt(5)>>)>>),
     BlockOf(PyStr(<<"Estrutura", "|", "Forma">>),
             <<(<<PyInt(31), PyStr(Pesado), PyInt(9)>>),
               (<<PyInt(32), PyStr(Leve), PyInt(7)>>),
               (<<PyInt(33), W("Médio"), PyInt(8)>>)>>),
     \* no name for the first value; 'color' has no row in the sample store
     BlockOf(W("Cor"), <<(<<PyInt(50), PyStr(<<>>), PyInt(3)>>),
                         (<<PyInt(51), W("Azul"), PyInt(9)>>)>>),
     \* a value without a score
     BlockOf(W("Material"), <<(<<PyInt(12), W("Algodão"), PyNone>>)>>),
     \* an attribute ATTRIBUTE_INFO does not know
     BlockOf(W("Estilo"), <<(<<PyInt(71), W("Boho"), PyInt(9)>>)>>)}

DetailContextSamples ==
    {EmptyDict, CtxFull, CtxPartial,
     PyDict([occasion |-> PyDict([formality |-> W("INFORMAL"), time |-> W("NOITE"),
                                  location |-> W("CIDADE"), activity |-> W("ESPORTE")]),
             weather |-> PyDict([climate |-> W("Cold")])])}

\* how many blocks a sampled detail set holds
MaxBlocks == 2
\* how many times the ranker is run on one input
MaxSearches == 2
CategorySamples == {PyNone, Vestidos, Sapatos, W("Bolsas")}
\* the store is a file read by one engine: rows with equal sort keys come
\* out in an order its contents fix, whichever it is
StoreOrderSamples == {<<1, 2, 3, 4, 5>>, <<5, 4, 3, 2, 1>>, <<2, 4, 1, 5, 3>>}
PositionIn(order, product_id) == CHOOSE i \in 1..Len(order) : order[i] = product_id
\* the answers of OrderedLimited in which ties follow the store's order
StoreAnswers(answers, rows, order) ==
    {s \in answers :
        /\ \A i, j \in 1..Len(s) :
                (i < j /\ s[i].relevance_score = s[j].relevance_score) =>
                    PositionIn(order, s[i].product_id) < PositionIn(order, s[j].product_id)
        /\ \A r \in rows : \A i \in 1..Len(s) :
                ((\A j \in 1..Len(s) : s[j] # r) /\ s[i].relevance_score = r.relevance_score) =>
                    PositionIn(order, s[i].product_id) < PositionIn(order, r.product_id)}
LimitSamples == {-1, 0, 1, 2, 3}

\* no other operation has started
IdleCore ==
    /\ IdlePipeline /\ IdleCanon /\ IdleCache /\ IdleRace /\ IdleManifest /\ IdlePrewarm
    /\ IdleExec /\ IdleExclusions

InitDetail ==
    /\ dcontext \in DetailContextSamples
    /\ ddetailed \in {PyList(l) : l \in SeqsUpTo(DetailBlockSamples, MaxBlocks)}
    /\ dfiltered = PyNone /\ dlabels = PyNone /\ dsearch = <<>>
    /\ dorder \in StoreOrderSamples
    /\ IdleCore /\ IdleGroup /\ IdleSidebar /\ IdleCounters

\* lines 221-252: the loop builds filtered_detailed_results; no statement of
\* it assigns into a block of detailed_results
FilterDetail ==
    /\ dfiltered = PyNone
    /\ dfiltered' = PyList(FilterAll(dcontext, ddetailed.l))
    /\ UNCHANGED <<dcontext, ddetailed, dlabels, dsearch, dorder, OutsideDetail>>

\* lines 257-265
BuildLabels ==
    /\ dfiltered # PyNone /\ dlabels = PyNone
    /\ dlabels' = PyList(fashion_attributes_list(dfiltered.l))
    /\ UNCHANGED <<dcontext, ddetailed, dfiltered, dsearch, dorder, OutsideDetail>>

\* one call of search_products_with_details on the filtered set (lines
\* 80-146); a later call repeats the arguments of the first
SearchProducts ==
    /\ dfiltered # PyNone /\ Len(dsearch) < MaxSearches
    /\ \E category_name \in CategorySamples : \E lim \in LimitSamples :
       LET exception == SearchException(dfiltered.l)
           answers == search_products_with_details(dfiltered.l, category_name, lim)
           rows == MatchingRows(Triples(dfiltered.l), category_name)
       IN  /\ dsearch # <<>> =>
                category_name = dsearch[1].category_name /\ lim = dsearch[1].limit
           /\ \E product_list \in IF exception # "none" THEN {<<>>}
                                  ELSE StoreAnswers(answers, rows, dorder) :
                dsearch' = Append(dsearch, [category_name |-> category_name, limit |-> lim,
                                            raised |-> exception,
                                            product_list |-> product_list])
    /\ UNCHANGED <<dcontext, ddetailed, dfiltered, dlabels, dorder, OutsideDetail>>

NextDetail == FilterDetail \/ BuildLabels \/ SearchProducts

SpecDetail == InitDetail /\ [][NextDetail]_vars

\* the value names forbidden for the attribute of block b, and the positions
\* of its named values that are not forbidden
ForbiddenFor(b) == Exclusions(dcontext, normalize_attribute_name(b.d["attribute"].s))
NamedPositions(b) == {i \in 1..3 : Truthy(Get(b, ValueKey(i, "name")))}
AllowedPositions(b) ==
    {i \in NamedPositions(b) : Get(b, ValueKey(i, "name")).s \notin ForbiddenFor(b)}
\* the i-th smallest member of a set of positions
RECURSIVE Ascending(_)
Ascending(S) == IF S = {} THEN <<>> ELSE <<Min(S)>> \o Ascending(S \ {Min(S)})
\* block o carries exactly the allowed values of b, in order, as value_1..
Renumbered(b, o) ==
    LET kept == Ascending(AllowedPositions(b))
    IN  /\ o.d["attribute"] = b.d["attribute"]
        /\ \A j \in 1..3 :
            IF j <= Len(kept)
            THEN \A f \in ValueFields : Get(o, ValueKey(j, f)) = Get(b, ValueKey(kept[j], f))
            ELSE ~Truthy(Get(o, ValueKey(j, "name")))
AllForbidden(b) == NamedPositions(b) # {} /\ AllowedPositions(b) = {}
C21_KeptRenumbered(b, o) == ~AllForbidden(b) /\ Renumbered(b, o)
C21_KeptAmended(b, o) ==
    /\ ~AllForbidden(b)
    /\ IF ForbiddenFor(b) = {} THEN o = b ELSE Renumbered(b, o)
C21_DroppedAmended(b) == ForbiddenFor(b) # {} /\ AllowedPositions(b) = {}
\* post is pre with some blocks dropped and the others replaced, as the
\* statement (amended or not) says which
RECURSIVE FilteredAs(_, _, _)
FilteredAs(pre, post, amended) ==
    LET Dropped(b) == IF amended THEN C21_DroppedAmended(b) ELSE AllForbidden(b)
        Kept(b, o) == IF amended THEN C21_KeptAmended(b, o) ELSE C21_KeptRenumbered(b, o)
    IN  IF pre = <<>> THEN post = <<>>
        ELSE \/ Dropped(Head(pre)) /\ FilteredAs(Tail(pre), post, amended)
             \/ /\ post # <<>> /\ Kept(Head(pre), Head(post))
                /\ FilteredAs(Tail(pre), Tail(post), amended)

C21_NoForbiddenLeft ==
    \A i \in 1..Len(dfiltered.l) : \A j \in 1..3 :
        LET value_name == Get(dfiltered.l[i], ValueKey(j, "name"))
        IN  value_name.t = "str" => value_name.s \notin ForbiddenFor(dfiltered.l[i])

\* C21 as stated: after stage 4 no filtered block carries a forbidden value
\* name, every named and non-forbidden value of every pre-filter block is
\* kept in order and renumbered from 1, and a block all of whose values are
\* forbidden is absent.
C21_AsStated ==
    dfiltered # PyNone =>
        /\ C21_NoForbiddenLeft
        /\ FilteredAs(ddetailed.l, dfiltered.l, FALSE)

\* C21 (amended): after stage 4 no filtered block carries a value name
\* forbidden for its attribute; a block whose attribute has forbidden names
\* is rebuilt with its named, non-forbidden values in their order renumbered
\* from 1, and is absent when none is left; a block whose attribute has no
\* forbidden name is passed on as it is, numbering included; and the blocks
\* of the pre-filter detail set are never modified.
C21_FilterContract ==
    /\ [](dfiltered # PyNone =>
            /\ C21_NoForbiddenLeft
            /\ FilteredAs(ddetailed.l, dfiltered.l, TRUE))
    /\ [][ddetailed' = ddetailed]_vars

\* a block lost its two forbidden values, the third became value_1, and
\* another block was dropped
C21_Witness ==
    /\ dfiltered # PyNone /\ Len(ddetailed.l) = 2 /\ Len(dfiltered.l) = 1
    /\ AllForbidden(ddetailed.l[2])
    /\ Get(ddetailed.l[1], "value_1_name") = PyStr(Pesado)
    /\ Get(ddetailed.l[1], "value_3_score") = PyInt(8)
    /\ Get(dfiltered.l[1], "value_1_name") = W("Médio")
    /\ Get(dfiltered.l[1], "value_1_score") = PyInt(8)
    /\ Get(dfiltered.l[1], "value_2_name") = PyNone

\* the attribute of block b is one ATTRIBUTE_INFO knows and the store has
KnownAttribute(b) ==
    \E a \in ATTRIBUTE_INFO : \E r \in AttributesTable :
        /\ a.key = normalize_attribute_name(GetOr(b, "attribute", PyStr(<<>>)).s)
        /\ r.name = a.attr_name
\* the positions of b's values that have both an id and a score
ScoredPositions(b) ==
    {i \in 1..3 : Get(b, ValueKey(i, "id")) # PyNone /\ Get(b, ValueKey(i, "score")) # PyNone}
YieldsTriple(blocks) ==
    \E i \in 1..Len(blocks) : KnownAttribute(blocks[i]) /\ ScoredPositions(blocks[i]) # {}

\* C22: search_products_with_details returns an empty list and raises no
\* error, whatever the category filter and the limit, when the detail set is
\* empty or every block of it has an unknown attribute name or no value with
\* both an id and a score.
C22_NoTripleNoProducts ==
    \A i \in 1..Len(dsearch) :
        ~YieldsTriple(dfiltered.l) =>
            dsearch[i].raised = "none" /\ dsearch[i].product_list = <<>>

\* a call with a category and no limit on a detail set of two blocks, one
\* with an attribute the store lacks and one with an unscored value
C22_Witness ==
    /\ dsearch # <<>> /\ dsearch[1].category_name = Vestidos /\ dsearch[1].limit = -1
    /\ Len(dfiltered.l) = 2
    /\ Get(dfiltered.l[1], "attribute") = W("Cor")
    /\ Get(dfiltered.l[2], "attribute") = W("Material")
    /\ dsearch[1].product_list = <<>>

Scores(product_list) == [i \in 1..Len(product_list) |-> product_list[i].relevance_score]
C23_OrderedAndFiltered(call) ==
    /\ \A i, j \in 1..Len(call.product_list) :
            i < j => call.product_list[i].relevance_score >= call.product_list[j].relevance_score
    /\ Truthy(call.category_name) =>
            \A i \in 1..Len(call.product_list) :
                call.product_list[i].category = call.category_name
C23_Repeatable ==
    \A i, j \in 1..Len(dsearch) : dsearch[i].product_list = dsearch[j].product_list

RECURSIVE WeightFor(_, _)
WeightFor(r, triples) ==
    IF triples = <<>> THEN 0
    ELSE (IF Head(triples)[1] = r.attribute_id /\ Head(triples)[2] = r.value_id
          THEN Head(triples)[3] ELSE 0) + WeightFor(r, Tail(triples))
RECURSIVE WeightedSum(_, _)
WeightedSum(taxonomy_rows, triples) ==
    IF taxonomy_rows = {} THEN 0
    ELSE LET r == CHOOSE x \in taxonomy_rows : TRUE
         IN  r.score * WeightFor(r, triples) + WeightedSum(taxonomy_rows \ {r}, triples)

\* C24: the relevance_score of each returned product is the sum, over the
\* taxonomy rows of the product, of the row's score times the weight of the
\* input triples with the row's (attribute_id, value_id), 0 for a row that
\* matches none, also when several triples name the same pair.
C24_ScoreIsWeightedSum ==
    \A i \in 1..Len(dsearch) : \A j \in 1..Len(dsearch[i].product_list) :
        LET product == dsearch[i].product_list[j]
        IN  product.relevance_score =
                WeightedSum({r \in ProductsTaxonomy : r.product_id = product.product_id},
                            Triples(dfiltered.l))

\* the values of the filtered blocks, as <<attribute, name, score>>
FilteredValues ==
    UNION {{<<Get(dfiltered.l[i], "attribute"), Get(dfiltered.l[i], ValueKey(j, "name")),
              Get(dfiltered.l[i], ValueKey(j, "score"))>> :
                j \in {k \in 1..3 : Truthy(Get(dfiltered.l[i], ValueKey(k, "name")))}} :
           i \in 1..Len(dfiltered.l)}

\* C28: a label 'attribute: value' is in the list sent to the stage-5
\* category call exactly when that value of a filtered block has a score
\* above the per-value threshold of 7, whether it is the block's first,
\* second or third value and whether or not the filter renumbered it.
C28_LabelIffAboveThreshold ==
    dlabels # PyNone =>
        {dlabels.l[i] : i \in 1..Len(dlabels.l)}
            = {<<v[1], v[2]>> : v \in {x \in FilteredValues :
                                        IsInt(x[3]) /\ x[3].n > VALUE_SCORE_THRESHOLD}}

\* C27: each of the stages before the product search (context, attribute
\* selection, detail analysis, exclusion filtering, category selection)
\* emits a typed result event (context_result or intermediate_result) after
\* its progress event and before the progress event of the next stage.
C27_ResultBetweenProgress ==
    \A i, j \in DOMAIN events :
        (/\ i < j
         /\ events[i].status = "progress" /\ events[j].status = "progress"
         /\ \A k \in (i + 1)..(j - 1) : events[k].status # "progress")
            => \E k \in (i + 1)..(j - 1) :
                    events[k].status \in {"context_result", "intermediate_result"}

(***************************************************************************)
(* group_products (utils/streamlit_utils.py lines 34-63; streamlit_app.py  *)
(* lines 41-69 is the same function without image_file): final_results is  *)
(* a dict, modelled as its (category, items) pairs in insertion order.     *)
(***************************************************************************)
\* lines 43-53: the entry built for product p under category cat
GroupedEntry(p, cat) ==
    PyDict([product_id |-> Get(p, "product_id"), name |-> Get(p, "name"),
            relevance_score |-> Get(p, "relevance_score"), category |-> cat,
            description |-> GetOr(p, "description", PyStr(<<>>))])

\* lines 40-56: the inner loop over the items of one category, from the
\* state (bucket, seen, count) on; count is the local `total`
RECURSIVE BucketLoop(_, _, _, _, _, _)
BucketLoop(items, cat, bucket, seen, count, cap) ==
    IF items = <<>> THEN [bucket |-> bucket, seen |-> seen, count |-> count]
    ELSE LET p == Head(items)
             pid == Get(p, "product_id")
         IN  IF ~Truthy(pid) \/ pid \in seen
             THEN BucketLoop(Tail(items), cat, bucket, seen, count, cap)
             ELSE IF count + 1 >= cap
             THEN [bucket |-> Append(bucket, GroupedEntry(p, cat)),
                   seen |-> seen \cup {pid}, count |-> count + 1]
             ELSE BucketLoop(Tail(items), cat, Append(bucket, GroupedEntry(p, cat)),
                             seen \cup {pid}, count + 1, cap)

\* lines 38-62: the outer loop over the categories
RECURSIVE CategoryLoop(_, _, _, _, _)
CategoryLoop(pairs, grouped, seen, count, cap) ==
    IF pairs = <<>> THEN grouped
    ELSE LET cat == Head(pairs).cat
             items == IF Truthy(Head(pairs).items) THEN Head(pairs).items.l ELSE <<>>
             r == BucketLoop(items, cat, <<>>, seen, count, cap)
             next == IF r.bucket # <<>>
                     THEN Append(grouped, [cat |-> cat, items |-> r.bucket])
                     ELSE grouped
         IN  IF r.count >= cap THEN next
             ELSE CategoryLoop(Tail(pairs), next, r.seen, r.count, cap)

group_products(final_results, cap) ==
    CategoryLoop(IF Truthy(final_results) THEN final_results.l ELSE <<>>, <<>>, {}, 0, cap)

ProductSamples ==
    {PyDict([product_id |-> PyInt(1), name |-> W("Vestido"), relevance_score |-> PyInt(45)]),
     PyDict([product_id |-> PyInt(2), name |-> W("Sandália"), relevance_score |-> PyInt(40)]),
     PyDict([name |-> W("Avulso"), relevance_score |-> PyInt(0)])}

\* how many categories a sampled final result holds, and how many products
\* a category
MaxCategories == 2
MaxItems == 2
CapSamples == {0, 1, 2, 3, 15}
ItemsSamples == {PyNone} \cup {PyList(l) : l \in SeqsUpTo(ProductSamples, MaxItems)}
FinalResultSamples ==
    {PyNone}
        \cup {PyList(l) : l \in {s \in SeqsUpTo([cat : {Vestidos, Sapatos, W("Bolsas")},
                                                   items : ItemsSamples], MaxCategories) :
                                    \A i, j \in 1..Len(s) : i # j => s[i].cat # s[j].cat}}

InitGroup ==
    /\ gfinal \in FinalResultSamples /\ gcap \in CapSamples /\ ggrouped = PyNone
    /\ IdleCore /\ IdleDetail /\ IdleSidebar /\ IdleCounters

\* one call group_products(final_results, cap)
GroupProducts ==
    /\ ggrouped = PyNone
    /\ ggrouped' = PyList(group_products(gfinal, gcap))
    /\ UNCHANGED <<gfinal, gcap, OutsideGroup>>

NextGroup == GroupProducts

SpecGroup == InitGroup /\ [][NextGroup]_vars

\* the products of the grouped result, category after category
RECURSIVE Flattened(_)
Flattened(grouped) ==
    IF grouped = <<>> THEN <<>> ELSE Head(grouped).items \o Flattened(Tail(grouped))
\* a is b with some elements left out
RECURSIVE IsSubsequence(_, _)
IsSubsequence(a, b) ==
    IF a = <<>> THEN TRUE
    ELSE IF b = <<>> THEN FALSE
    ELSE IF Head(a) = Head(b) THEN IsSubsequence(Tail(a), Tail(b))
    ELSE IsSubsequence(a, Tail(b))
InputPairs == IF Truthy(gfinal) THEN gfinal.l ELSE <<>>
InputItems(cat) ==
    LET pair == CHOOSE x \in {InputPairs[i] : i \in 1..Len(InputPairs)} : x.cat = cat
    IN  IF Truthy(pair.items) THEN pair.items.l ELSE <<>>
ProductIds(items) == [i \in 1..Len(items) |-> Get(items[i], "product_id")]

C25_NoDuplicateInOrder ==
    LET out == ggrouped.l
        all == Flattened(out)
    IN  /\ \A i, j \in 1..Len(all) :
                i # j => Get(all[i], "product_id") # Get(all[j], "product_id")
        /\ IsSubsequence([i \in 1..Len(out) |-> out[i].cat],
                         [i \in 1..Len(InputPairs) |-> InputPairs[i].cat])
        /\ \A i \in 1..Len(out) :
                /\ out[i].items # <<>>
                /\ IsSubsequence(ProductIds(out[i].items), ProductIds(InputItems(out[i].cat)))

\* C25: for every category-to-products input and every configured cap, the
\* output of group_products holds each product_id at most once over all
\* categories, holds at most cap products in all, keeps categories and
\* products in input order and has no category without a product.
C25_GroupedWithinCap ==
    ggrouped # PyNone =>
        /\ C25_NoDuplicateInOrder
        /\ Len(Flattened(ggrouped.l)) <= gcap

(***************************************************************************)
(* stream_user_query (streamlit_orchestrator.py lines 10-22, and the real  *)
(* mode of streamlit_client.py lines 34-37): every event of                *)
(* process_user_query_streaming is forwarded, so its steps are those of    *)
(* the pipeline; the cache directory is whatever earlier writes left.      *)
(***************************************************************************)
EmptyCacheDir == [p \in Paths |-> Absent]
\* the canonical key of the query asked, indexed under f1.json
AskedKey == KeyA_B
CacheDirSamples ==
    {EmptyCacheDir,
     [EmptyCacheDir EXCEPT !["f1.json"] = Garbage],
     write_cache("f1.json",
                 build_envelope(<<"A", " ", "b", "!">>, AskedKey,
                                PyDict(Vestidos :> PyList(<<ProductRow>>)), "f1.json"),
                 EmptyCacheDir).dir}

InitServe ==
    /\ InitPipeline
    /\ files \in CacheDirSamples
    /\ lastWrite = [f \in CacheFiles |-> PyNone] /\ lastRead = <<>>
    /\ IdleCanon /\ IdleRace /\ IdleManifest /\ IdlePrewarm /\ IdleExec /\ IdleExclusions
    /\ IdleRest

SpecServe == InitServe /\ [][Next]_vars

CacheReadable == get_cached_result(AskedKey, Index, files) # PyNone

\* C26: when the canonical key of the query has a readable cache entry, the
\* query is answered from the cache: stream_user_query makes no call of the
\* Prompt Executor and none of the Product Ranker for it.
C26_CacheHitShortCircuits == CacheReadable => calls = <<>>

(***************************************************************************)
(* render_dev_sidebar (streamlit_orchestrator.py lines 43-92) with         *)
(* fetch_results_for_prewarm (lines 25-40): one press of the prewarm       *)
(* button.  Each row comes with the event stream stream_user_query         *)
(* produces for its query.                                                 *)
(***************************************************************************)
FinalData == PyDict(Vestidos :> PyList(<<ProductRow>>))
StreamSamples ==
    {<<Progress(1), Progress(6), FinalResult(FinalData)>>,
     <<Progress(1), Progress(6), FinalResult(PyNone)>>,
     <<Progress(1), Progress(2), ErrorEvent(2)>>,
     <<Progress(1), Progress(5), FinalMessage>>}

\* lines 26-40: the value returned, or the exception raised
RECURSIVE fetch_results_for_prewarm(_)
fetch_results_for_prewarm(stream) ==
    IF stream = <<>> THEN [raised |-> "RuntimeError", value |-> PyNone]
    ELSE LET ev == Head(stream)
         IN  IF ev.status = "final_result"
             THEN [raised |-> "none",
                   value |-> IF ev.data.t = "dict" THEN ev.data
                             ELSE IF group_products(ev.data, 15) = <<>> THEN EmptyDict
                             ELSE PyList(group_products(ev.data, 15))]
             ELSE IF ev.status = "error" THEN [raised |-> "RuntimeError", value |-> PyNone]
             ELSE fetch_results_for_prewarm(Tail(stream))

\* CACHE_DIR as streamlit_orchestrator imports it (line 6): the str of
\* config.py line 89, not the Path cache_runtime makes of it for itself
OrchestratorCacheDir == [t |-> "str", s |-> "data/cached_queries_v1"]
\* CACHE_DIR / r.filename (line 64): str has no operator /
PathJoin(dir, filename) ==
    IF dir.t = "path" THEN [raised |-> "none", path |-> filename]
    ELSE [raised |-> "TypeError", path |-> ""]

\* the body of the try block for row r (lines 63-78): the outcome, whether
\* the fetch was made, the exception caught and the directory afterwards
SidebarRowBody(r, dir, overwrite_flag) ==
    LET joined == PathJoin(OrchestratorCacheDir, r.filename)
    IN  IF joined.raised # "none"
        THEN [outcome |-> "failed", fetched |-> FALSE, exception |-> joined.raised, dir |-> dir]
        ELSE IF dir[joined.path].kind # "absent" /\ ~overwrite_flag
        THEN [outcome |-> "skipped", fetched |-> FALSE, exception |-> "none", dir |-> dir]
        ELSE LET result == fetch_results_for_prewarm(r.stream)
             IN  IF result.raised # "none"
                 THEN [outcome |-> "failed", fetched |-> TRUE, exception |-> result.raised,
                       dir |-> dir]
                 ELSE LET env == build_envelope(r.query_raw, r.query_norm, result.value,
                                                r.filename)
                          done == write_cache(r.filename, env, dir)
                      IN  [outcome |-> IF done.raised = "none" THEN "written" ELSE "failed",
                           fetched |-> TRUE, exception |-> done.raised, dir |-> done.dir]

SidebarRowSamples ==
    [query_raw : {<<"A", " ", "b", "!">>}, query_norm : {KeyA_B}, filename : {"f1.json"},
     stream : StreamSamples]
        \cup [query_raw : {<<"b">>}, query_norm : {<<"b">>}, filename : {"f2.json"},
              stream : StreamSamples]
\* how many rows the sampled manifest holds
MaxSidebarRows == 2

InitSidebar ==
    /\ spc = "idle"
    /\ srows \in {s \in SeqsUpTo(SidebarRowSamples, MaxSidebarRows) :
                    \A i, j \in 1..Len(s) : i # j => s[i].filename # s[j].filename}
    /\ soverwrite \in BOOLEAN /\ slimit \in 0..2
    /\ scount = <<>> /\ slog = <<>>
    /\ files \in {EmptyCacheDir, [EmptyCacheDir EXCEPT !["f1.json"] = Doc(JArr(<<>>))]}
    /\ lastWrite = <<>> /\ lastRead = <<>>
    /\ IdlePipeline /\ IdleCanon /\ IdleRace /\ IdleManifest /\ IdlePrewarm /\ IdleExec
    /\ IdleExclusions /\ IdleDetail /\ IdleGroup /\ IdleCounters

\* the button is pressed (lines 48-59): the rows are read and cut to the
\* limit, the counters are set
SidebarStart ==
    /\ spc = "idle"
    /\ srows' = IF slimit > 0 /\ slimit < Len(srows) THEN SubSeq(srows, 1, slimit) ELSE srows
    /\ scount' = [total |-> Len(srows'), written |-> 0, skipped |-> 0, failed |-> 0]
    /\ spc' = "loop"
    /\ UNCHANGED <<soverwrite, slimit, slog, files, OutsideSidebar>>

\* one iteration of the loop (lines 61-86), the except clause included
SidebarRow ==
    /\ spc = "loop" /\ Len(slog) < Len(srows)
    /\ LET r == srows[Len(slog) + 1]
           body == SidebarRowBody(r, files, soverwrite)
       IN  /\ files' = body.dir
           /\ slog' = Append(slog, [outcome |-> body.outcome, fetched |-> body.fetched,
                                    exception |-> body.exception, before |-> files[r.filename]])
           /\ scount' = [scount EXCEPT ![body.outcome] = @ + 1]
    /\ UNCHANGED <<spc, srows, soverwrite, slimit, OutsideSidebar>>

\* the loop is over and the summary is shown (lines 88-90)
SidebarDone ==
    /\ spc = "loop" /\ Len(slog) = Len(srows)
    /\ spc' = "done"
    /\ UNCHANGED <<srows, soverwrite, slimit, scount, slog, files, OutsideSidebar>>

NextSidebar == SidebarStart \/ SidebarRow \/ SidebarDone

SpecSidebar == InitSidebar /\ [][NextSidebar]_vars

HasFinalResult(stream) == \E i \in 1..Len(stream) : stream[i].status = "final_result"

MaxThreads == 2
Threads == 1..MaxThreads
\* response.usage of the sampled responses
UsageSamples == {[prompt_tokens |-> 1, completion_tokens |-> 1],
                 [prompt_tokens |-> 2, completion_tokens |-> 1]}
NoResponse == [prompt_tokens |-> 0, completion_tokens |-> 0]

InitCounters ==
    /\ total_input_tokens = 0 /\ total_output_tokens = 0 /\ num_api_calls = 0
    /\ kpc = [t \in Threads |-> "request"]
    /\ kresponse = [t \in Threads |-> NoResponse]
    /\ kloaded = [t \in Threads |-> 0]
    /\ IdleCore /\ IdleDetail /\ IdleGroup /\ IdleSidebar

\* line 87: the request is answered with a response
CallResponds(t) ==
    /\ kpc[t] = "request"
    /\ \E usage \in UsageSamples : kresponse' = [kresponse EXCEPT ![t] = usage]
    /\ kpc' = [kpc EXCEPT ![t] = "load_input"]
    /\ UNCHANGED <<total_input_tokens, total_output_tokens, num_api_calls, kloaded,
                   OutsideCounters>>

\* lines 107-121: the request fails and call_model returns no response
CallFails(t) ==
    /\ kpc[t] = "request"
    /\ kpc' = [kpc EXCEPT ![t] = "failed"]
    /\ UNCHANGED <<total_input_tokens, total_output_tokens, num_api_calls, kresponse,
                   kloaded, OutsideCounters>>

\* the read half of a += (lines 100, 101, 103)
LoadCounter(t) ==
    /\ kpc[t] \in {"load_input", "load_output", "load_calls"}
    /\ kloaded' = [kloaded EXCEPT ![t] =
                        CASE kpc[t] = "load_input" -> total_input_tokens
                          [] kpc[t] = "load_output" -> total_output_tokens
                          [] kpc[t] = "load_calls" -> num_api_calls]
    /\ kpc' = [kpc EXCEPT ![t] =
                        CASE kpc[t] = "load_input" -> "store_input"
                          [] kpc[t] = "load_output" -> "store_output"
                          [] kpc[t] = "load_calls" -> "store_calls"]
    /\ UNCHANGED <<total_input_tokens, total_output_tokens, num_api_calls, kresponse,
                   OutsideCounters>>

\* the write half: total_input_tokens += input_tokens (line 100)
StoreInput(t) ==
    /\ kpc[t] = "store_input"
    /\ total_input_tokens' = kloaded[t] + kresponse[t].prompt_tokens
    /\ kpc' = [kpc EXCEPT ![t] = "load_output"]
    /\ UNCHANGED <<total_output_tokens, num_api_calls, kresponse, kloaded, OutsideCounters>>

\* total_output_tokens += output_tokens (line 101)
StoreOutput(t) ==
    /\ kpc[t] = "store_output"
    /\ total_output_tokens' = kloaded[t] + kresponse[t].completion_tokens
    /\ kpc' = [kpc EXCEPT ![t] = "load_calls"]
    /\ UNCHANGED <<total_input_tokens, num_api_calls, kresponse, kloaded, OutsideCounters>>

\* num_api_calls += 1 and return response (lines 103-105)
StoreCalls(t) ==
    /\ kpc[t] = "store_calls"
    /\ num_api_calls' = kloaded[t] + 1
    /\ kpc' = [kpc EXCEPT ![t] = "returned"]
    /\ UNCHANGED <<total_input_tokens, total_output_tokens, kresponse, kloaded,
                   OutsideCounters>>

NextCounters ==
    \E t \in Threads :
        \/ CallResponds(t) \/ CallFails(t) \/ LoadCounter(t)
        \/ StoreInput(t) \/ StoreOutput(t) \/ StoreCalls(t)

SpecCounters == InitCounters /\ [][NextCounters]_vars

Responded == {t \in Threads : kpc[t] = "returned"}
\* the sum of field `key` of the responses of the threads in S
RECURSIVE UsageSum(_, _)
UsageSum(S, key) ==
    IF S = {} THEN 0
    ELSE LET t == CHOOSE x \in S : TRUE IN kresponse[t][key] + UsageSum(S \ {t}, key)

\* C30: once the concurrent invocations of call_model are over, whatever the
\* interleaving, num_api_calls is the number of invocations that returned a
\* response and total_input_tokens and total_output_tokens are the sums of
\* the token counts of those responses.
C30_NoLostUpdate ==
    (\A t \in Threads : kpc[t] \in {"returned", "failed"}) =>
        /\ num_api_calls = Cardinality(Responded)
        /\ total_input_tokens = UsageSum(Responded, "prompt_tokens")
        /\ total_output_tokens = UsageSum(Responded, "completion_tokens")

====
